---- MODULE Spec2Model ----
(***************************************************************************)
(* Disposal-due cascade of the EcoTrace retailer application.              *)
(*                                                                         *)
(* The ledger is the Postgres schema of final_project_schema.sql: four     *)
(* due tables linked by single-parent foreign keys, the transaction logs   *)
(* the cascade triggers read, and the row-level AFTER UPDATE / AFTER       *)
(* INSERT triggers that open the next-tier due.  The clients are the       *)
(* functions of lib/disposal-dues, lib/transactions and the screens that   *)
(* write dues.  Every PostgREST request is one statement in its own        *)
(* transaction: a statement, together with the triggers it fires, is one   *)
(* atomic step; a client function is a sequence of such steps that other   *)
(* clients interleave with.                                                *)
(***************************************************************************)
EXTENDS Integers, Sequences, FiniteSets, TLC

VARIABLES
    now,                      \* the clock, in ticks (TicksPerDay ticks a day, UTC)
    consumer_disposal_dues,   \* table, row id = index
    business_disposal_dues,
    retailer_disposal_dues,
    company_disposal_dues,
    transactions,             \* consumer-facing sales
    business_transactions,
    inventory_transactions,
    retailer_transactions,    \* collection records
    registered_businesses,    \* retailers.registered_businesses, per retailer
    retailer_inventory,       \* table, row id = index
    tasks                     \* the client calls in flight

vars == <<now, consumer_disposal_dues, business_disposal_dues,
          retailer_disposal_dues, company_disposal_dues, transactions,
          business_transactions, inventory_transactions, retailer_transactions,
          registered_businesses, retailer_inventory, tasks>>

dueTables == <<consumer_disposal_dues, business_disposal_dues,
               retailer_disposal_dues, company_disposal_dues>>

otherTables == <<transactions, business_transactions, inventory_transactions,
                 retailer_transactions, registered_businesses, retailer_inventory>>

-----------------------------------------------------------------------------
(* Bounds of the model *)

NTasks == 2          \* client calls that can be in flight together
MaxPurchases == 1    \* business purchases (completePurchaseFlow)
MaxDirect == 1       \* retailer-to-company purchases of a retailer (confirmPurchase)
MaxOrigins == 1      \* purchases that open dues (a positive disposal amount)
MaxCollections == 2  \* collections recorded in retailer_transactions
MaxSales == 1        \* sales to buyers (createConsumerTransaction)
MaxLinks == 1        \* business_transactions rows before createBusinessTransaction is called alone
MaxCustom == 1       \* products a retailer makes of its own (addInventoryItem)
MaxManual == 1       \* retailer dues before createRetailerDisposalDue is called
MaxFlows == 2            \* calls of createCompleteDisposalDueFlow on its own
MaxDay == 40         \* the clock stops at the end of this day
TicksPerDay == 2     \* resolution of the clock
\* no table of the runs below holds more rows than this
MaxRows == 2 * MaxPurchases + 2 * MaxDirect + 1

(* Master data (users, businesses, retailers, company products) *)

NULL == "null"                \* a NULL text or uuid of a party
NoId == 0                     \* a NULL reference to a row
Businesses == {"b1", "b2"}
Retailers == {"r1", "r2"}
\* the retailers that use the application in the runs that do not say otherwise
Stockists == {"r1"}
Companies == {"k1"}
OwnerOf(b) == IF b = "b1" THEN "u1" ELSE "u2"      \* businesses.owner_id
\* users: the owners of the businesses (user_type business) and a consumer
Consumers == {"u3"}
Users == {OwnerOf(b) : b \in Businesses} \cup Consumers
UserType(u) == IF u \in Consumers THEN "consumer" ELSE "business"
\* .from("businesses").select("id").eq("owner_id", u).single()
BusinessOf(u) == CHOOSE b \in Businesses : OwnerOf(b) = u
\* company_products: p0 and p1 are products of company k1, with disposal_cost
\* 0 and 25
CompanyProducts == {"p0", "p1"}
\* the company_products row a retailer creates for a product of its own:
\* company_id is null
CustomProduct == "c1"
ProductCompany(p) == IF p = CustomProduct THEN NULL ELSE "k1"
ProductDisposalCost(p) == IF p = "p0" THEN 0 ELSE 25

Tiers == {"consumer", "business", "retailer", "company"}
Statuses == {"pending", "paid", "overdue"}

(* Inputs the clients draw from *)
PlasticCosts == {0, 20}       \* plasticQuantity * plasticCostPerGram of a purchase
Fees == {c \in PlasticCosts : c > 0}      \* the sales that carry a fee
StockInQtys == {2}            \* units of a retailer-to-company purchase
PurchaseQtys == {1}           \* units of a business purchase
GramsPerUnit == {1}           \* grams of a material in a unit of a custom product
OrderQtys == {-1, 1, 3}       \* units asked for, as completePurchaseFlow is given them
TZOffsets == {-1, 0, 1}       \* device time zone, in ticks east of UTC
\* the clock moves forward by 38 days and a tick at once
TimeJumps == {38 * TicksPerDay + 1}
RetailerUser(r) == IF r = "r1" THEN "ur1" ELSE "ur2"      \* retailers.user_id

-----------------------------------------------------------------------------
(* Dates.  The database session runs in UTC; the devices run in their own  *)
(* zone and serialise dates with toISOString, which is UTC.                *)

\* toISOString().split("T")[0]: the UTC calendar day of an instant
ToISODate(t) == t \div TicksPerDay

\* the date n days on, at local midnight
SetDatePlus_midnight(t, n, tz) ==
    LET local == t + tz
        day == local \div TicksPerDay
    IN  ((day + n) * TicksPerDay) - tz

\* d.setDate(d.getDate() + n) on a device tz ticks east of UTC: the local
\* calendar day moves by n, the local time of day is kept
SetDatePlus(t, n, tz) ==
    LET local == t + tz
        day == local \div TicksPerDay
        tod == local % TicksPerDay
    IN  ((day + n) * TicksPerDay + tod) - tz

\* new Date(Date.now() + n * 24 * 60 * 60 * 1000)
DateNowPlusDays(t, n) == t + n * TicksPerDay

\* CURRENT_DATE of the database session
CURRENT_DATE == now \div TicksPerDay

\* CURRENT_DATE + INTERVAL 'n days', stored in a DATE column
PlusInterval(day, n) == day + n

ConsumerOffset == 30
BusinessOffset == 15
RetailerOffset == 10
CompanyOffset == 7
DirectRetailerOffset == 30
DirectCompanyOffset == 37

-----------------------------------------------------------------------------
(* Rows *)

ConsumerDue(consumer, txn, amount, due) ==
    [consumer_id |-> consumer, transaction_id |-> txn, amount |-> amount,
     due_date |-> due, status |-> "pending", created_at |-> now]

BusinessDue(business, parent, amount, due) ==
    [business_id |-> business, consumer_disposal_due_id |-> parent,
     amount |-> amount, due_date |-> due, status |-> "pending",
     created_at |-> now]

RetailerDue(retailer, parent, amount, due, source) ==
    [retailer_id |-> retailer, business_disposal_due_id |-> parent,
     amount |-> amount, due_date |-> due, status |-> "pending",
     source_type |-> source, created_at |-> now]

CompanyDue(company, parent, amount, due, source) ==
    [company_id |-> company, retailer_disposal_due_id |-> parent,
     amount |-> amount, due_date |-> due, status |-> "pending",
     source_type |-> source, created_at |-> now]

Ids(table) == 1..Len(table)
Rows(table) == {table[i] : i \in Ids(table)}
InSeq(x, seq) == \E k \in 1..Len(seq) : seq[k] = x

SetStatus(table, ids, s) ==
    [i \in Ids(table) |-> IF i \in ids THEN [table[i] EXCEPT !.status = s]
                                       ELSE table[i]]

-----------------------------------------------------------------------------
(* The four due tables as one value, so that a statement is a function of  *)
(* the ledger.                                                             *)

Dues == [consumer |-> consumer_disposal_dues, business |-> business_disposal_dues,
         retailer |-> retailer_disposal_dues, company |-> company_disposal_dues]

Commit(db) ==
    /\ consumer_disposal_dues' = db.consumer
    /\ business_disposal_dues' = db.business
    /\ retailer_disposal_dues' = db.retailer
    /\ company_disposal_dues' = db.company

NextTier(tier) ==
    CASE tier = "consumer" -> "business"
      [] tier = "business" -> "retailer"
      [] tier = "retailer" -> "company"
      [] OTHER -> NULL

\* the column of a due row that links it to the due that spawned it
ParentOf(tier, row) ==
    CASE tier = "business" -> row.consumer_disposal_due_id
      [] tier = "retailer" -> row.business_disposal_due_id
      [] tier = "company" -> row.retailer_disposal_due_id
      [] OTHER -> NoId

-----------------------------------------------------------------------------
(* Triggers.  Each is given the next-tier table as it stands when the      *)
(* trigger runs and yields the tables it can leave: SELECT ... LIMIT 1     *)
(* without ORDER BY returns any one of the matching rows.                  *)

\* the trigger without its test of the fee
create_consumer_disposal_due_on_purchase_always(NEWROW, id, cdd) ==
    Append(cdd, ConsumerDue(NEWROW.user_id, id, NEWROW.plastic_disposal_fee,
                            PlusInterval(CURRENT_DATE, ConsumerOffset)))

\* AFTER INSERT ON transactions
create_consumer_disposal_due_on_purchase(NEWROW, id, cdd) ==
    IF NEWROW.plastic_disposal_fee > 0
    THEN Append(cdd, ConsumerDue(NEWROW.user_id, id, NEWROW.plastic_disposal_fee,
                                 PlusInterval(CURRENT_DATE, ConsumerOffset)))
    ELSE cdd

\* the trigger without its test of the status before the UPDATE
create_business_disposal_due_refire(OLDROW, NEWROW, id, bdd) ==
    IF NEWROW.status = "paid"
    THEN LET found == {bt.business_id : bt \in
                         {x \in Rows(business_transactions) :
                            x.inventory_id = transactions[NEWROW.transaction_id].inventory_id}}
         IN  IF found = {} THEN {bdd}
             ELSE {Append(bdd, BusinessDue(b, id, NEWROW.amount,
                                  PlusInterval(CURRENT_DATE, BusinessOffset))) : b \in found}
    ELSE {bdd}

\* the trigger firing on every change of status
create_business_disposal_due_on_change(OLDROW, NEWROW, id, bdd) ==
    IF NEWROW.status # OLDROW.status
    THEN LET found == {bt.business_id : bt \in
                         {x \in Rows(business_transactions) :
                            x.inventory_id = transactions[NEWROW.transaction_id].inventory_id}}
         IN  IF found = {} THEN {bdd}
             ELSE {Append(bdd, BusinessDue(b, id, NEWROW.amount,
                                  PlusInterval(CURRENT_DATE, BusinessOffset))) : b \in found}
    ELSE {bdd}

\* the consumer table without its trigger: a settled consumer due opens nothing
create_business_disposal_due_dropped(OLDROW, NEWROW, id, bdd) == {bdd}

\* AFTER UPDATE ON consumer_disposal_dues
create_business_disposal_due(OLDROW, NEWROW, id, bdd) ==
    IF NEWROW.status = "paid" /\ OLDROW.status # "paid"
    THEN LET found == {bt.business_id : bt \in
                         {x \in Rows(business_transactions) :
                            x.inventory_id = transactions[NEWROW.transaction_id].inventory_id}}
         IN  IF found = {} THEN {bdd}
             ELSE {Append(bdd, BusinessDue(b, id, NEWROW.amount,
                                  PlusInterval(CURRENT_DATE, BusinessOffset))) : b \in found}
    ELSE {bdd}

\* the trigger passing on the amount less a unit
create_retailer_disposal_due_less(OLDROW, NEWROW, id, rdd) ==
    IF NEWROW.status = "paid" /\ OLDROW.status # "paid"
    THEN LET registered == {r \in Retailers : InSeq(NEWROW.business_id, registered_businesses[r])}
             purchased == {retailer_inventory[it.inventory_id].retailer_id : it \in
                             {x \in Rows(inventory_transactions) :
                                x.business_id = NEWROW.business_id}}
             found == IF registered # {} THEN registered ELSE purchased
         IN  IF found = {} THEN {rdd}
             ELSE {Append(rdd, RetailerDue(r, id, NEWROW.amount - 1,
                                  PlusInterval(CURRENT_DATE, RetailerOffset),
                                  "business_chain")) : r \in found}
    ELSE {rdd}

\* the trigger firing on a change from pending only
create_retailer_disposal_due_from_pending(OLDROW, NEWROW, id, rdd) ==
    IF NEWROW.status = "paid" /\ OLDROW.status = "pending"
    THEN LET registered == {r \in Retailers : InSeq(NEWROW.business_id, registered_businesses[r])}
             purchased == {retailer_inventory[it.inventory_id].retailer_id : it \in
                             {x \in Rows(inventory_transactions) :
                                x.business_id = NEWROW.business_id}}
             found == IF registered # {} THEN registered ELSE purchased
         IN  IF found = {} THEN {rdd}
             ELSE {Append(rdd, RetailerDue(r, id, NEWROW.amount,
                                  PlusInterval(CURRENT_DATE, RetailerOffset),
                                  "business_chain")) : r \in found}
    ELSE {rdd}

\* the trigger looking in inventory_transactions first
create_retailer_disposal_due_purchases_first(OLDROW, NEWROW, id, rdd) ==
    IF NEWROW.status = "paid" /\ OLDROW.status # "paid"
    THEN LET registered == {r \in Retailers : InSeq(NEWROW.business_id, registered_businesses[r])}
             purchased == {retailer_inventory[it.inventory_id].retailer_id : it \in
                             {x \in Rows(inventory_transactions) :
                                x.business_id = NEWROW.business_id}}
             found == IF purchased # {} THEN purchased ELSE registered
         IN  IF found = {} THEN {rdd}
             ELSE {Append(rdd, RetailerDue(r, id, NEWROW.amount,
                                  PlusInterval(CURRENT_DATE, RetailerOffset),
                                  "business_chain")) : r \in found}
    ELSE {rdd}

\* AFTER UPDATE ON business_disposal_dues
create_retailer_disposal_due(OLDROW, NEWROW, id, rdd) ==
    IF NEWROW.status = "paid" /\ OLDROW.status # "paid"
    THEN LET registered == {r \in Retailers : InSeq(NEWROW.business_id, registered_businesses[r])}
             purchased == {retailer_inventory[it.inventory_id].retailer_id : it \in
                             {x \in Rows(inventory_transactions) :
                                x.business_id = NEWROW.business_id}}
             found == IF registered # {} THEN registered ELSE purchased
         IN  IF found = {} THEN {rdd}
             ELSE {Append(rdd, RetailerDue(r, id, NEWROW.amount,
                                  PlusInterval(CURRENT_DATE, RetailerOffset),
                                  "business_chain")) : r \in found}
    ELSE {rdd}

\* the trigger without its test of the status before the UPDATE
create_company_disposal_due_refire(OLDROW, NEWROW, id, kdd) ==
    IF NEWROW.status = "paid"
    THEN LET found == {ProductCompany(retailer_inventory[i].company_product_id) :
                         i \in {x \in Ids(retailer_inventory) :
                                  /\ retailer_inventory[x].retailer_id = NEWROW.retailer_id
                                  /\ retailer_inventory[x].company_product_id # NULL}}
         IN  IF found = {} THEN {kdd}
             ELSE {IF k = NULL THEN kdd
                   ELSE Append(kdd, CompanyDue(k, id, NEWROW.amount,
                                  PlusInterval(CURRENT_DATE, CompanyOffset),
                                  "retailer_chain")) : k \in found}
    ELSE {kdd}

\* the trigger leaving retailer_disposal_due_id of the due it opens null
create_company_disposal_due_unlinked(OLDROW, NEWROW, id, kdd) ==
    IF NEWROW.status = "paid" /\ OLDROW.status # "paid"
    THEN LET found == {ProductCompany(retailer_inventory[i].company_product_id) :
                         i \in {x \in Ids(retailer_inventory) :
                                  /\ retailer_inventory[x].retailer_id = NEWROW.retailer_id
                                  /\ retailer_inventory[x].company_product_id # NULL}}
         IN  IF found = {} THEN {kdd}
             ELSE {IF k = NULL THEN kdd
                   ELSE Append(kdd, CompanyDue(k, NoId, NEWROW.amount,
                                  PlusInterval(CURRENT_DATE, CompanyOffset),
                                  "retailer_chain")) : k \in found}
    ELSE {kdd}

\* AFTER UPDATE ON retailer_disposal_dues
create_company_disposal_due(OLDROW, NEWROW, id, kdd) ==
    IF NEWROW.status = "paid" /\ OLDROW.status # "paid"
    THEN LET found == {ProductCompany(retailer_inventory[i].company_product_id) :
                         i \in {x \in Ids(retailer_inventory) :
                                  /\ retailer_inventory[x].retailer_id = NEWROW.retailer_id
                                  /\ retailer_inventory[x].company_product_id # NULL}}
         IN  IF found = {} THEN {kdd}
             ELSE {IF k = NULL THEN kdd
                   ELSE Append(kdd, CompanyDue(k, id, NEWROW.amount,
                                  PlusInterval(CURRENT_DATE, CompanyOffset),
                                  "retailer_chain")) : k \in found}
    ELSE {kdd}

\* the trigger of a due table (company_disposal_dues has none)
Trigger(tier, OLDROW, NEWROW, id, next) ==
    CASE tier = "consumer" -> create_business_disposal_due(OLDROW, NEWROW, id, next)
      [] tier = "business" -> create_retailer_disposal_due(OLDROW, NEWROW, id, next)
      [] tier = "retailer" -> create_company_disposal_due(OLDROW, NEWROW, id, next)

\* FOR EACH ROW: the trigger runs once per updated row, in row order
RECURSIVE AfterUpdate(_, _, _, _, _)
AfterUpdate(tier, ids, old, new, next) ==
    IF ids = {} THEN {next}
    ELSE LET i == CHOOSE x \in ids : \A y \in ids : x <= y
         IN  UNION {AfterUpdate(tier, ids \ {i}, old, new, n) :
                      n \in Trigger(tier, old[i], new[i], i, next)}

\* UPDATE <tier>_disposal_dues SET status = s WHERE id IN ids, with its
\* triggers: the ledgers the statement can leave
UpdateStatus(db, tier, ids, s) ==
    LET new == SetStatus(db[tier], ids, s)
    IN  IF tier = "company" THEN {[db EXCEPT ![tier] = new]}
        ELSE {[db EXCEPT ![tier] = new, ![NextTier(tier)] = n] :
                n \in AfterUpdate(tier, ids, db[tier], new, db[NextTier(tier)])}

\* the sweep without .eq("status", "pending")
OverdueRows_any(table, today, scope) ==
    {i \in Ids(table) : /\ table[i].due_date < today
                        /\ (scope # NULL => table[i].retailer_id = scope)}

\* the sweep taking one row a run
OverdueRows_first(table, today, scope) ==
    LET all == {i \in Ids(table) : /\ table[i].status = "pending"
                                   /\ table[i].due_date < today
                                   /\ (scope # NULL => table[i].retailer_id = scope)}
    IN  {i \in all : \A j \in all : i <= j}

\* the sweep taking the dues of today with those of the days before
OverdueRows_through(table, today, scope) ==
    {i \in Ids(table) : /\ table[i].status = "pending"
                        /\ table[i].due_date <= today
                        /\ (scope # NULL => table[i].retailer_id = scope)}

\* .update({ status: "overdue" }).lt("due_date", today).eq("status", "pending"),
\* narrowed by .eq("retailer_id", r) when scope is a retailer
OverdueRows(table, today, scope) ==
    {i \in Ids(table) : /\ table[i].status = "pending"
                        /\ table[i].due_date < today
                        /\ (scope # NULL => table[i].retailer_id = scope)}

SweepTable(db, tier, today, scope) ==
    UpdateStatus(db, tier, OverdueRows(db[tier], today, scope), "overdue")

\* updateOverdueDues of lib/disposal-dues run without interruption: the four
\* statements in their order, as of one day
SweepAll(db, today) ==
    UNION {UNION {UNION {SweepTable(d3, "company", today, NULL) :
                           d3 \in SweepTable(d2, "retailer", today, NULL)} :
                    d2 \in SweepTable(d1, "business", today, NULL)} :
             d1 \in SweepTable(db, "consumer", today, NULL)}

-----------------------------------------------------------------------------
(* Client calls.  A task is one call of a client function: the statement   *)
(* it is about to send (pc), what it read or was given, and, once it has   *)
(* returned (pc = "done"), what it reported.                               *)

Tasks == 1..NTasks

Idle == [op |-> "idle", pc |-> "idle", tier |-> NULL, due |-> 0, sel |-> {},
         pre |-> NULL, old |-> NULL, cascade |-> NULL, marked |-> FALSE,
         outcome |-> NULL, asOf |-> 0, scope |-> NULL, biz |-> NULL, inv |-> 0,
         prod |-> NULL, qty |-> 0, amt |-> 0, snap |-> 0, read |-> 0,
         err |-> FALSE, hit |-> FALSE, user |-> NULL, raised |-> NULL]

Init ==
    /\ now = 0
    /\ consumer_disposal_dues = << >>
    /\ business_disposal_dues = << >>
    /\ retailer_disposal_dues = << >>
    /\ company_disposal_dues = << >>
    /\ transactions = << >>
    /\ business_transactions = << >>
    /\ inventory_transactions = << >>
    /\ retailer_transactions = << >>
    /\ registered_businesses = [r \in Retailers |-> << >>]
    /\ retailer_inventory = << >>
    /\ tasks = [t \in Tasks |-> Idle]

\* a new call takes the lowest free task (the tasks are interchangeable)
Free(t) == tasks[t] = Idle /\ \A u \in Tasks : u < t => tasks[u] # Idle

At(t, op, pc) == tasks[t].op = op /\ tasks[t].pc = pc

Set(t, rec) == tasks' = [tasks EXCEPT ![t] = rec]

\* what the trigger of an UPDATE to paid did, read off the ledger before and
\* after the statement: nothing (the row was paid already), opened the next
\* due, or found no next-tier party
CascadeOf(tier, d, db, db2) ==
    IF db[tier][d].status = "paid" THEN "none"
    ELSE IF Len(db2[NextTier(tier)]) > Len(db[NextTier(tier)]) THEN "created"
    ELSE "unresolved"

\* the triggers raising nothing when they open no due
Raised_silent(tier, d, db, db2) ==
    IF db[tier][d].status = "paid" THEN NULL
    ELSE IF Len(db2[NextTier(tier)]) > Len(db[NextTier(tier)]) THEN "NOTICE"
    ELSE NULL

\* the message the trigger of an UPDATE to paid raised: a NOTICE when it
\* opened the next due; a WARNING when create_retailer_disposal_due found no
\* retailer; nothing when another trigger found no party, or none fired
Raised(tier, d, db, db2) ==
    IF db[tier][d].status = "paid" THEN NULL
    ELSE IF Len(db2[NextTier(tier)]) > Len(db[NextTier(tier)]) THEN "NOTICE"
    ELSE IF tier = "business" THEN "WARNING"
    ELSE NULL

-----------------------------------------------------------------------------
(* lib/disposal-dues: payConsumerDisposalDue, payBusinessDisposalDue,      *)
(* payRetailerDisposalDue.  One UPDATE by id; returns true, or throws the  *)
(* error of the statement.                                                 *)

PayOp(tier) ==
    CASE tier = "consumer" -> "payConsumerDisposalDue"
      [] tier = "business" -> "payBusinessDisposalDue"
      [] tier = "retailer" -> "payRetailerDisposalDue"

\* a caller asks to settle due d of a tier
CallPay(t, tier, d) ==
    /\ Free(t)
    /\ d \in Ids(Dues[tier])
    /\ Set(t, [Idle EXCEPT !.op = PayOp(tier), !.pc = "update", !.tier = tier,
                           !.due = d, !.pre = Dues[tier][d].status])
    /\ UNCHANGED <<now, dueTables, otherTables>>

\* .update({ status: "paid" }).eq("id", d) and what the caller is told
PayUpdate(t, tier, ok, pc) ==
    /\ \E db \in UpdateStatus(Dues, tier, {tasks[t].due}, "paid") :
         /\ Commit(db)
         /\ Set(t, [tasks[t] EXCEPT !.pc = pc, !.outcome = ok,
                      !.old = Dues[tier][tasks[t].due].status,
                      !.marked = TRUE,
                      !.cascade = CascadeOf(tier, tasks[t].due, Dues, db),
                      !.raised = Raised(tier, tasks[t].due, Dues, db)])
    /\ UNCHANGED <<now, otherTables>>

payConsumerDisposalDue(t) ==
    /\ At(t, "payConsumerDisposalDue", "update")
    /\ PayUpdate(t, "consumer", "true", "done")

payBusinessDisposalDue(t) ==
    /\ At(t, "payBusinessDisposalDue", "update")
    /\ PayUpdate(t, "business", "true", "done")

payRetailerDisposalDue(t) ==
    /\ At(t, "payRetailerDisposalDue", "update")
    /\ PayUpdate(t, "retailer", "true", "done")

\* The company settles company due k.  lib/disposal-dues has no pay
\* function for the company tier: the settle is the UPDATE to paid of the
\* row, on which the schema has no trigger.
CallSettleCompanyDue(t, k) ==
    /\ Free(t)
    /\ k \in Ids(company_disposal_dues)
    /\ Set(t, [Idle EXCEPT !.op = "settleCompanyDue", !.pc = "update", !.tier = "company",
                           !.due = k, !.pre = company_disposal_dues[k].status])
    /\ UNCHANGED <<now, dueTables, otherTables>>

settleCompanyDue(t) ==
    /\ At(t, "settleCompanyDue", "update")
    /\ \E db \in UpdateStatus(Dues, "company", {tasks[t].due}, "paid") :
         /\ Commit(db)
         /\ Set(t, [tasks[t] EXCEPT !.pc = "done", !.outcome = "true",
                      !.old = company_disposal_dues[tasks[t].due].status,
                      !.marked = TRUE, !.cascade = "none"])
    /\ UNCHANGED <<now, otherTables>>

\* createRetailerDisposalDue(retailerId, businessDisposalDueId, amount,
\* dueDate): a caller opens a retailer due under business due parent, due in
\* n days
CallCreateRetailerDisposalDue(t, r, parent, amount, n) ==
    /\ Free(t)
    /\ Len(retailer_disposal_dues) < MaxManual
    /\ Set(t, [Idle EXCEPT !.op = "createRetailerDisposalDue", !.pc = "insert",
                           !.scope = r, !.due = parent, !.amt = amount,
                           !.asOf = ToISODate(DateNowPlusDays(now, n))])
    /\ UNCHANGED <<now, dueTables, otherTables>>

\* the insert taking any business_disposal_due_id
createRetailerDisposalDue_unchecked(t) ==
    /\ At(t, "createRetailerDisposalDue", "insert")
    /\ retailer_disposal_dues' = Append(retailer_disposal_dues,
           RetailerDue(tasks[t].scope, tasks[t].due, tasks[t].amt, tasks[t].asOf,
                       "business_chain"))
    /\ Set(t, [tasks[t] EXCEPT !.pc = "done", !.outcome = "ok",
                               !.snap = Len(retailer_disposal_dues) + 1])
    /\ UNCHANGED <<now, consumer_disposal_dues, business_disposal_dues,
                   company_disposal_dues, otherTables>>

\* the insert: business_disposal_due_id REFERENCES business_disposal_dues(id),
\* so a parent that is no row of that table is an error, which is thrown;
\* source_type takes its default
createRetailerDisposalDue(t) ==
    /\ At(t, "createRetailerDisposalDue", "insert")
    /\ IF tasks[t].due \in Ids(business_disposal_dues)
       THEN /\ retailer_disposal_dues' = Append(retailer_disposal_dues,
                   RetailerDue(tasks[t].scope, tasks[t].due, tasks[t].amt, tasks[t].asOf,
                               "business_chain"))
            /\ Set(t, [tasks[t] EXCEPT !.pc = "done", !.outcome = "ok",
                                       !.snap = Len(retailer_disposal_dues) + 1])
       ELSE /\ UNCHANGED retailer_disposal_dues
            /\ Set(t, [tasks[t] EXCEPT !.pc = "done", !.outcome = "throw"])
    /\ UNCHANGED <<now, consumer_disposal_dues, business_disposal_dues,
                   company_disposal_dues, otherTables>>

\* the call has returned and its result is dropped
Return(t) ==
    /\ tasks[t].pc = "done"
    /\ Set(t, Idle)
    /\ UNCHANGED <<now, dueTables, otherTables>>

\* time passes
Advance(j) ==
    /\ now + j < (MaxDay + 1) * TicksPerDay
    /\ now' = now + j
    /\ UNCHANGED <<dueTables, otherTables, tasks>>

-----------------------------------------------------------------------------
(* Disposal dues screen (app/(tabs)/index.tsx, DisposalDuesScreen)         *)

\* fetchDisposalDues on mount or refresh, for the retailer logged in
fetchDisposalDues(t, r) ==
    /\ Free(t)
    /\ Set(t, [Idle EXCEPT !.op = "fetchDisposalDues", !.pc = "sweep", !.scope = r])
    /\ UNCHANGED <<now, dueTables, otherTables>>

\* handlePayDue: "Mark as Paid" is offered on a listed due that is not paid
handlePayDue(t, d) ==
    /\ Free(t)
    /\ d \in Ids(retailer_disposal_dues)
    /\ retailer_disposal_dues[d].status # "paid"
    /\ Set(t, [Idle EXCEPT !.op = "handlePayDue", !.pc = "update", !.tier = "retailer",
                           !.due = d, !.pre = retailer_disposal_dues[d].status,
                           !.scope = retailer_disposal_dues[d].retailer_id])
    /\ UNCHANGED <<now, dueTables, otherTables>>

\* onPress: the UPDATE, the Success alert, then fetchDisposalDues()
handlePayDueOnPress(t) ==
    /\ At(t, "handlePayDue", "update")
    /\ PayUpdate(t, "retailer", "Success", "sweep")

\* updateOverdueDues of the screen, run first by every fetchDisposalDues
updateOverdueDuesScreen(t) ==
    /\ tasks[t].op \in {"fetchDisposalDues", "handlePayDue"}
    /\ tasks[t].pc = "sweep"
    /\ LET today == ToISODate(now)
       IN  /\ \E db \in SweepTable(Dues, "retailer", today, tasks[t].scope) : Commit(db)
           /\ Set(t, [tasks[t] EXCEPT !.pc = "done", !.asOf = today,
                        !.hit = \E i \in Ids(retailer_disposal_dues) :
                                  /\ retailer_disposal_dues[i].status = "paid"
                                  /\ retailer_disposal_dues[i].due_date < today
                                  /\ retailer_disposal_dues[i].retailer_id = tasks[t].scope])
    /\ UNCHANGED <<now, otherTables>>

-----------------------------------------------------------------------------
(* lib/disposal-dues: updateOverdueDues.  today is read once; the four     *)
(* UPDATEs follow one another and their errors are not looked at.          *)

CallUpdateOverdueDues(t) ==
    /\ Free(t)
    /\ Set(t, [Idle EXCEPT !.op = "updateOverdueDues", !.pc = "consumer",
                           !.asOf = ToISODate(now)])
    /\ UNCHANGED <<now, dueTables, otherTables>>

AfterSweep(tier) == IF tier = "company" THEN "done" ELSE NextTier(tier)

updateOverdueDues(t) ==
    /\ tasks[t].op = "updateOverdueDues"
    /\ tasks[t].pc \in Tiers
    /\ LET tier == tasks[t].pc
       IN  /\ \E db \in SweepTable(Dues, tier, tasks[t].asOf, NULL) : Commit(db)
           /\ Set(t, [tasks[t] EXCEPT !.pc = AfterSweep(tier),
                        !.outcome = IF tier = "company" THEN "true" ELSE NULL,
                        !.hit = tasks[t].hit \/
                                \E i \in Ids(Dues[tier]) :
                                  /\ Dues[tier][i].status = "paid"
                                  /\ Dues[tier][i].due_date < tasks[t].asOf])
    /\ UNCHANGED <<now, otherTables>>

-----------------------------------------------------------------------------
(* Payments screen (part_004): collectPayment, processPayment              *)

\* collections recorded or about to be
Collected ==
    Len(retailer_transactions)
    + Cardinality({t \in Tasks : \/ At(t, "processPayment", "update")
                                \/ At(t, "processPayment", "record")
                                \/ At(t, "processCollection", "record")})

\* collectPayment: a due of the pending list is selected
collectPayment(t, d) ==
    /\ Free(t)
    /\ Collected < MaxCollections
    /\ d \in Ids(retailer_disposal_dues)
    /\ retailer_disposal_dues[d].status = "pending"
    /\ Set(t, [Idle EXCEPT !.op = "processPayment", !.pc = "update", !.tier = "retailer",
                           !.due = d, !.pre = "pending",
                           !.amt = retailer_disposal_dues[d].amount,
                           !.scope = retailer_disposal_dues[d].retailer_id])
    /\ UNCHANGED <<now, dueTables, otherTables>>

\* processPayment, first statement: the due is marked paid
processPaymentUpdate(t) ==
    /\ At(t, "processPayment", "update")
    /\ PayUpdate(t, "retailer", NULL, "record")

\* processPayment, then: the business of the due is looked up by
\* business_disposal_due_id (.single() is an error when no row matches) and
\* the collection is recorded
processPaymentRecord(t) ==
    /\ At(t, "processPayment", "record")
    /\ LET parent == retailer_disposal_dues[tasks[t].due].business_disposal_due_id
       IN  IF parent = NoId
           THEN /\ Set(t, [tasks[t] EXCEPT !.pc = "done", !.outcome = "Error"])
                /\ UNCHANGED retailer_transactions
           ELSE /\ retailer_transactions' = Append(retailer_transactions,
                      [retailer_id |-> tasks[t].scope,
                       business_id |-> business_disposal_dues[parent].business_id,
                       amount |-> tasks[t].amt])
                /\ Set(t, [tasks[t] EXCEPT !.pc = "done", !.outcome = "Success"])
    /\ UNCHANGED <<now, dueTables, transactions, business_transactions,
                   inventory_transactions, registered_businesses, retailer_inventory>>

-----------------------------------------------------------------------------
(* Businesses screen (app/(tabs)/index.tsx): collectFromBusiness,          *)
(* processCollection                                                       *)

\* the pending retailer dues of retailer r under business due b
PendingChildren(b, r) ==
    {i \in Ids(retailer_disposal_dues) :
       /\ retailer_disposal_dues[i].business_disposal_due_id = b
       /\ retailer_disposal_dues[i].retailer_id = r
       /\ retailer_disposal_dues[i].status = "pending"}

\* business_disposal_dues of a business joined (!inner) with its pending
\* retailer dues of the retailer: each due with the first of its children
CollectableDues(business, r) ==
    {<<b, CHOOSE i \in PendingChildren(b, r) : \A j \in PendingChildren(b, r) : i <= j>> :
       b \in {x \in Ids(business_disposal_dues) :
                /\ business_disposal_dues[x].business_id = business
                /\ PendingChildren(x, r) # {}}}

RECURSIVE SumAmounts(_, _)
SumAmounts(table, ids) ==
    IF ids = {} THEN 0
    ELSE LET i == CHOOSE x \in ids : TRUE
         IN  table[i].amount + SumAmounts(table, ids \ {i})

\* collectFromBusiness and the "Collect" button of its alert
collectFromBusiness(t, business, r) ==
    /\ Free(t)
    /\ Collected < MaxCollections
    /\ CollectableDues(business, r) # {}
    /\ Set(t, [Idle EXCEPT !.op = "processCollection", !.pc = "record",
                 !.biz = business, !.scope = r, !.sel = CollectableDues(business, r),
                 !.tier = "retailer",
                 !.amt = SumAmounts(business_disposal_dues,
                                    {p[1] : p \in CollectableDues(business, r)})])
    /\ UNCHANGED <<now, dueTables, otherTables>>

\* processCollection: the collection is recorded
processCollectionRecord(t) ==
    /\ At(t, "processCollection", "record")
    /\ retailer_transactions' = Append(retailer_transactions,
           [retailer_id |-> tasks[t].scope, business_id |-> tasks[t].biz,
            amount |-> tasks[t].amt])
    /\ Set(t, [tasks[t] EXCEPT !.pc = "retailer"])
    /\ UNCHANGED <<now, dueTables, transactions, business_transactions,
                   inventory_transactions, registered_businesses, retailer_inventory>>

\* processCollection: the retailer dues are marked paid
processCollectionRetailer(t) ==
    /\ At(t, "processCollection", "retailer")
    /\ \E db \in UpdateStatus(Dues, "retailer", {p[2] : p \in tasks[t].sel}, "paid") :
         Commit(db)
    /\ Set(t, [tasks[t] EXCEPT !.pc = "business", !.marked = TRUE])
    /\ UNCHANGED <<now, otherTables>>

\* processCollection: the business dues are marked paid; an error of either
\* UPDATE is thrown only now
processCollectionBusiness(t) ==
    /\ At(t, "processCollection", "business")
    /\ \E db \in UpdateStatus(Dues, "business", {p[1] : p \in tasks[t].sel}, "paid") :
         Commit(db)
    /\ Set(t, [tasks[t] EXCEPT !.pc = "done",
                 !.outcome = IF tasks[t].err THEN "Error" ELSE "Success"])
    /\ UNCHANGED <<now, otherTables>>

-----------------------------------------------------------------------------
(* Company products screen (part_002): confirmPurchase, a retailer stocks  *)
(* in q units of a company's product.  The company_payments row it also    *)
(* writes is read by no due logic and is left out.                         *)

InventoryRow(r, p, q) ==
    [retailer_id |-> r, company_product_id |-> p, quantity |-> q,
     status |-> "available"]

\* the purchases a retailer has recorded, and those it is in the middle of
StockIns(r) == Cardinality({i \in Ids(transactions) :
                              transactions[i].user_id = RetailerUser(r)})

StockInsStarting(r) == Cardinality({t \in Tasks : /\ tasks[t].op = "confirmPurchase"
                                                  /\ tasks[t].scope = r
                                                  /\ tasks[t].pc \in {"check", "stock", "txn"}})

\* purchases that have opened dues or are about to
Origins ==
    Cardinality({i \in Ids(transactions) : transactions[i].plastic_disposal_fee > 0})
    + Cardinality({i \in Ids(retailer_disposal_dues) :
                     retailer_disposal_dues[i].source_type = "company_purchase"})
    + Cardinality({t \in Tasks :
                     /\ tasks[t].amt > 0
                     /\ \/ /\ tasks[t].op = "confirmPurchase"
                           /\ tasks[t].pc \in {"check", "stock", "txn", "rdue"}
                        \/ /\ tasks[t].op = "completePurchaseFlow"
                           /\ tasks[t].pc \in {"invtxn", "txn"}
                        \/ /\ tasks[t].op = "createConsumerTransaction"
                           /\ tasks[t].pc = "txn"})

\* the form is valid (quantity > 0, unit price > 0) and the purchase starts
confirmPurchase(t, r, p, q) ==
    /\ Free(t)
    /\ StockIns(r) + StockInsStarting(r) < MaxDirect
    /\ ProductDisposalCost(p) > 0 => Origins < MaxOrigins
    /\ q > 0
    /\ Set(t, [Idle EXCEPT !.op = "confirmPurchase", !.pc = "check", !.scope = r,
                           !.prod = p, !.qty = q, !.amt = ProductDisposalCost(p) * q])
    /\ UNCHANGED <<now, dueTables, otherTables>>

\* is the product in the retailer's inventory already (.maybeSingle())
confirmPurchaseCheck(t) ==
    /\ At(t, "confirmPurchase", "check")
    /\ LET existing == {i \in Ids(retailer_inventory) :
                          /\ retailer_inventory[i].retailer_id = tasks[t].scope
                          /\ retailer_inventory[i].company_product_id = tasks[t].prod}
       IN  /\ Cardinality(existing) <= 1
           /\ IF existing = {}
              THEN Set(t, [tasks[t] EXCEPT !.pc = "stock", !.snap = 0])
              ELSE LET i == CHOOSE x \in existing : TRUE
                   IN  Set(t, [tasks[t] EXCEPT !.pc = "stock", !.snap = i,
                                 !.read = retailer_inventory[i].quantity])
    /\ UNCHANGED <<now, dueTables, otherTables>>

\* the row found is updated to the quantity read plus q, or a row is inserted
confirmPurchaseStock(t) ==
    /\ At(t, "confirmPurchase", "stock")
    /\ IF tasks[t].snap # 0
       THEN /\ retailer_inventory' =
                 [retailer_inventory EXCEPT ![tasks[t].snap] =
                    [@ EXCEPT !.quantity = tasks[t].read + tasks[t].qty,
                              !.status = "available"]]
            /\ Set(t, [tasks[t] EXCEPT !.pc = "txn", !.inv = tasks[t].snap])
       ELSE /\ retailer_inventory' = Append(retailer_inventory,
                 InventoryRow(tasks[t].scope, tasks[t].prod, tasks[t].qty))
            /\ Set(t, [tasks[t] EXCEPT !.pc = "txn", !.inv = Len(retailer_inventory) + 1])
    /\ UNCHANGED <<now, dueTables, transactions, business_transactions,
                   inventory_transactions, retailer_transactions, registered_businesses>>

\* INSERT INTO transactions, with its AFTER INSERT trigger
InsertTransaction(row) ==
    /\ transactions' = Append(transactions, row)
    /\ consumer_disposal_dues' =
         create_consumer_disposal_due_on_purchase(row, Len(transactions) + 1,
                                                  consumer_disposal_dues)

\* the purchase is recorded in transactions with plastic_disposal_fee 0
confirmPurchaseTransaction(t) ==
    /\ At(t, "confirmPurchase", "txn")
    /\ InsertTransaction([user_id |-> RetailerUser(tasks[t].scope),
                          inventory_id |-> tasks[t].inv, plastic_disposal_fee |-> 0])
    /\ IF tasks[t].amt > 0
       THEN Set(t, [tasks[t] EXCEPT !.pc = "rdue"])
       ELSE Set(t, [tasks[t] EXCEPT !.pc = "done", !.outcome = "Success"])
    /\ UNCHANGED <<now, business_disposal_dues, retailer_disposal_dues,
                   company_disposal_dues, business_transactions, inventory_transactions,
                   retailer_transactions, registered_businesses, retailer_inventory>>

\* lib/disposal-dues createRetailerCompanyDisposalDue, first insert: the
\* retailer due, on a device tz ticks east of UTC
createRetailerCompanyDisposalDue_retailer(t, tz) ==
    /\ At(t, "confirmPurchase", "rdue")
    /\ retailer_disposal_dues' = Append(retailer_disposal_dues,
           RetailerDue(tasks[t].scope, NoId, tasks[t].amt,
                       ToISODate(SetDatePlus(now, DirectRetailerOffset, tz)),
                       "company_purchase"))
    /\ Set(t, [tasks[t] EXCEPT !.pc = "kdue", !.due = Len(retailer_disposal_dues) + 1])
    /\ UNCHANGED <<now, consumer_disposal_dues, business_disposal_dues,
                   company_disposal_dues, otherTables>>

\* the company due given the date of the retailer due
createRetailerCompanyDisposalDue_company_same_date(t, tz) ==
    /\ At(t, "confirmPurchase", "kdue")
    /\ company_disposal_dues' = Append(company_disposal_dues,
           CompanyDue(ProductCompany(tasks[t].prod), tasks[t].due, tasks[t].amt,
                      ToISODate(SetDatePlus(now, DirectRetailerOffset, tz)),
                      "direct_purchase"))
    /\ Set(t, [tasks[t] EXCEPT !.pc = "done", !.outcome = "Success",
                               !.snap = Len(company_disposal_dues) + 1])
    /\ UNCHANGED <<now, consumer_disposal_dues, business_disposal_dues,
                   retailer_disposal_dues, otherTables>>

\* createRetailerCompanyDisposalDue, second insert: the company due
createRetailerCompanyDisposalDue_company(t, tz) ==
    /\ At(t, "confirmPurchase", "kdue")
    /\ company_disposal_dues' = Append(company_disposal_dues,
           CompanyDue(ProductCompany(tasks[t].prod), tasks[t].due, tasks[t].amt,
                      ToISODate(SetDatePlus(now, DirectCompanyOffset, tz)),
                      "direct_purchase"))
    /\ Set(t, [tasks[t] EXCEPT !.pc = "done", !.outcome = "Success",
                               !.snap = Len(company_disposal_dues) + 1])
    /\ UNCHANGED <<now, consumer_disposal_dues, business_disposal_dues,
                   retailer_disposal_dues, otherTables>>

-----------------------------------------------------------------------------
(* lib/transactions (part_008): completePurchaseFlow, a business buys q    *)
(* units of inventory item i; cost is plasticQuantity * plasticCostPerGram *)

PurchasesStarting == Cardinality({t \in Tasks : At(t, "completePurchaseFlow", "invtxn")})

completePurchaseFlow(t, b, i, q, cost) ==
    /\ Free(t)
    /\ Len(inventory_transactions) + PurchasesStarting < MaxPurchases
    /\ cost > 0 => Origins < MaxOrigins
    /\ i \in Ids(retailer_inventory)
    /\ Set(t, [Idle EXCEPT !.op = "completePurchaseFlow", !.pc = "invtxn", !.biz = b,
                           !.inv = i, !.qty = q, !.amt = cost,
                           !.scope = retailer_inventory[i].retailer_id])
    /\ UNCHANGED <<now, dueTables, otherTables>>

\* createInventoryTransaction: the inventory_transactions row
createInventoryTransaction(t) ==
    /\ At(t, "completePurchaseFlow", "invtxn")
    /\ inventory_transactions' = Append(inventory_transactions,
           [inventory_id |-> tasks[t].inv, business_id |-> tasks[t].biz,
            quantity |-> tasks[t].qty, transaction_type |-> "purchase",
            plastic_disposal_cost |-> tasks[t].amt])
    /\ Set(t, [tasks[t] EXCEPT !.pc = IF tasks[t].amt > 0 THEN "txn" ELSE "biztxn"])
    /\ UNCHANGED <<now, dueTables, transactions, business_transactions,
                   retailer_transactions, registered_businesses, retailer_inventory>>

\* createInventoryTransaction: the transactions row of the business owner
createInventoryTransaction_consumer(t) ==
    /\ At(t, "completePurchaseFlow", "txn")
    /\ InsertTransaction([user_id |-> OwnerOf(tasks[t].biz),
                          inventory_id |-> tasks[t].inv,
                          plastic_disposal_fee |-> tasks[t].amt])
    /\ Set(t, [tasks[t] EXCEPT !.pc = "cdue", !.snap = Len(transactions) + 1])
    /\ UNCHANGED <<now, business_disposal_dues, retailer_disposal_dues,
                   company_disposal_dues, business_transactions, inventory_transactions,
                   retailer_transactions, registered_businesses, retailer_inventory>>

\* the callers of createCompleteDisposalDueFlow, and where each goes on once
\* the flow has returned
FlowOps == {"completePurchaseFlow", "createConsumerTransaction",
            "createCompleteDisposalDueFlow"}
AfterFlow(k) ==
    IF k.op = "completePurchaseFlow" THEN [k EXCEPT !.pc = "biztxn", !.read = 0]
    ELSE [k EXCEPT !.pc = "done", !.outcome = "ok", !.read = 0]

\* flows called on their own, made or about to insert their due
FlowsMade ==
    Len(consumer_disposal_dues)
    + Cardinality({t \in Tasks : At(t, "createCompleteDisposalDueFlow", "cdue")})

\* createCompleteDisposalDueFlow(consumerId, transactionId, businessId,
\* retailerId, companyId, amount) called on its own, for the owner of
\* business b as the consumer of transaction x
CallCreateCompleteDisposalDueFlow(t, x, b, r, amount) ==
    /\ Free(t)
    /\ FlowsMade < MaxFlows
    /\ x \in Ids(transactions)
    /\ Set(t, [Idle EXCEPT !.op = "createCompleteDisposalDueFlow", !.pc = "cdue",
                           !.user = OwnerOf(b), !.snap = x, !.biz = b, !.scope = r,
                           !.amt = amount])
    /\ UNCHANGED <<now, dueTables, otherTables>>

\* createCompleteDisposalDueFlow: createConsumerDisposalDue with the default
\* dueDate, 30 days from now
createCompleteDisposalDueFlow(t) ==
    /\ tasks[t].op \in FlowOps /\ tasks[t].pc = "cdue"
    /\ consumer_disposal_dues' = Append(consumer_disposal_dues,
           ConsumerDue(OwnerOf(tasks[t].biz), tasks[t].snap, tasks[t].amt,
                       ToISODate(DateNowPlusDays(now, ConsumerOffset))))
    /\ Set(t, [tasks[t] EXCEPT !.pc = "regread"])
    /\ UNCHANGED <<now, business_disposal_dues, retailer_disposal_dues,
                   company_disposal_dues, otherTables>>

\* ensureBusinessRetailerRelationship: registered_businesses is read
ensureBusinessRetailerRelationship(t) ==
    /\ tasks[t].op \in FlowOps /\ tasks[t].pc = "regread"
    /\ LET current == registered_businesses[tasks[t].scope]
       IN  IF InSeq(tasks[t].biz, current)
           THEN Set(t, AfterFlow(tasks[t]))
           ELSE Set(t, [tasks[t] EXCEPT !.pc = "regwrite", !.read = current])
    /\ UNCHANGED <<now, dueTables, otherTables>>

\* ensureBusinessRetailerRelationship: the array read, with the business
\* appended, is written back
ensureBusinessRetailerRelationship_update(t) ==
    /\ tasks[t].op \in FlowOps /\ tasks[t].pc = "regwrite"
    /\ registered_businesses' =
         [registered_businesses EXCEPT ![tasks[t].scope] = Append(tasks[t].read, tasks[t].biz)]
    /\ Set(t, AfterFlow(tasks[t]))
    /\ UNCHANGED <<now, dueTables, transactions, business_transactions,
                   inventory_transactions, retailer_transactions, retailer_inventory>>

\* createBusinessTransaction, as a step of completePurchaseFlow or called alone
createBusinessTransaction(t) ==
    /\ tasks[t].op \in {"completePurchaseFlow", "createBusinessTransaction"}
    /\ tasks[t].pc = "biztxn"
    /\ business_transactions' = Append(business_transactions,
           [business_id |-> tasks[t].biz, inventory_id |-> tasks[t].inv])
    /\ IF tasks[t].op = "completePurchaseFlow"
       THEN Set(t, [tasks[t] EXCEPT !.pc = "qtyread"])
       ELSE Set(t, [tasks[t] EXCEPT !.pc = "done", !.outcome = "ok"])
    /\ UNCHANGED <<now, dueTables, transactions, inventory_transactions,
                   retailer_transactions, registered_businesses, retailer_inventory>>

\* updateInventoryAfterTransaction is the last step of completePurchaseFlow
\* and an exported function a caller may use on its own
MoveOps == {"completePurchaseFlow", "updateInventoryAfterTransaction"}

\* a caller records that q units of inventory item i were bought; the call
\* notes what the item holds and whether another such call on the item is in
\* flight
CallUpdateInventoryAfterTransaction(t, i, q) ==
    /\ Free(t)
    /\ i \in Ids(retailer_inventory)
    /\ Set(t, [Idle EXCEPT !.op = "updateInventoryAfterTransaction", !.pc = "qtyread",
                           !.inv = i, !.qty = q,
                           !.snap = retailer_inventory[i].quantity,
                           !.hit = \E u \in Tasks :
                                     /\ tasks[u].op = "updateInventoryAfterTransaction"
                                     /\ tasks[u].pc # "done"
                                     /\ tasks[u].inv = i])
    /\ UNCHANGED <<now, dueTables, otherTables>>

\* the new quantity kept at 0 or above, as addInventoryItem keeps it
updateInventoryAfterTransaction_clamped(t) ==
    /\ tasks[t].op \in MoveOps /\ tasks[t].pc = "qtyread"
    /\ LET newQuantity == retailer_inventory[tasks[t].inv].quantity - tasks[t].qty
       IN  Set(t, [tasks[t] EXCEPT !.pc = "qtywrite",
                     !.read = IF newQuantity < 0 THEN 0 ELSE newQuantity])
    /\ UNCHANGED <<now, dueTables, otherTables>>

\* updateInventoryAfterTransaction(inventoryId, quantity, "purchase"): the
\* quantity is read and the new quantity computed; below 0 it throws
updateInventoryAfterTransaction(t) ==
    /\ tasks[t].op \in MoveOps /\ tasks[t].pc = "qtyread"
    /\ LET newQuantity == retailer_inventory[tasks[t].inv].quantity - tasks[t].qty
       IN  IF newQuantity < 0
           THEN Set(t, [tasks[t] EXCEPT !.pc = "done", !.outcome = "Insufficient inventory"])
           ELSE Set(t, [tasks[t] EXCEPT !.pc = "qtywrite", !.read = newQuantity])
    /\ UNCHANGED <<now, dueTables, otherTables>>

\* updateInventoryAfterTransaction: the new quantity is written
updateInventoryAfterTransaction_update(t) ==
    /\ tasks[t].op \in MoveOps /\ tasks[t].pc = "qtywrite"
    /\ retailer_inventory' =
         [retailer_inventory EXCEPT ![tasks[t].inv] = [@ EXCEPT !.quantity = tasks[t].read]]
    /\ Set(t, [tasks[t] EXCEPT !.pc = "done", !.outcome = "ok", !.read = 0])
    /\ UNCHANGED <<now, dueTables, transactions, business_transactions,
                   inventory_transactions, retailer_transactions, registered_businesses>>

\* a caller records that business b buys inventory item i
CallCreateBusinessTransaction(t, b, i) ==
    /\ Free(t)
    /\ Len(business_transactions) < MaxLinks
    /\ i \in Ids(retailer_inventory)
    /\ Set(t, [Idle EXCEPT !.op = "createBusinessTransaction", !.pc = "biztxn",
                           !.biz = b, !.inv = i])
    /\ UNCHANGED <<now, dueTables, otherTables>>

\* the transactions of buyers, recorded and about to be
SalesMade == Cardinality({i \in Ids(transactions) : transactions[i].user_id \in Users})
             + Cardinality({t \in Tasks : At(t, "createConsumerTransaction", "txn")})

\* createConsumerTransaction: user u pays for inventory item i, fee being the
\* plastic_disposal_fee of the sale
createConsumerTransaction(t, u, i, fee) ==
    /\ Free(t)
    /\ SalesMade < MaxSales
    /\ fee > 0 => Origins < MaxOrigins
    /\ i \in Ids(retailer_inventory)
    /\ Set(t, [Idle EXCEPT !.op = "createConsumerTransaction", !.pc = "txn",
                           !.user = u, !.inv = i, !.amt = fee,
                           !.biz = IF UserType(u) = "business" THEN BusinessOf(u) ELSE NULL,
                           !.scope = retailer_inventory[i].retailer_id])
    /\ UNCHANGED <<now, dueTables, otherTables>>

\* the transactions row; with a fee, a buyer who owns a business goes on to
\* createCompleteDisposalDueFlow with that business
createConsumerTransaction_insert(t) ==
    /\ At(t, "createConsumerTransaction", "txn")
    /\ InsertTransaction([user_id |-> tasks[t].user, inventory_id |-> tasks[t].inv,
                          plastic_disposal_fee |-> tasks[t].amt])
    /\ IF tasks[t].amt > 0 /\ UserType(tasks[t].user) = "business"
       THEN Set(t, [tasks[t] EXCEPT !.pc = "cdue", !.snap = Len(transactions) + 1])
       ELSE Set(t, [tasks[t] EXCEPT !.pc = "done", !.outcome = "ok",
                                    !.snap = Len(transactions) + 1])
    /\ UNCHANGED <<now, business_disposal_dues, retailer_disposal_dues,
                   company_disposal_dues, business_transactions, inventory_transactions,
                   retailer_transactions, registered_businesses, retailer_inventory>>

-----------------------------------------------------------------------------
(* Inventory screen (part_003): addInventoryItem, a retailer makes a       *)
(* product of its own out of a plastic material it has in stock.  The      *)
(* company_products row written for it has company_id null.                *)

CustomItems == {i \in Ids(retailer_inventory) :
                  retailer_inventory[i].company_product_id = CustomProduct}

\* quantity === 0 ? 'out_of_stock' : 'available'
getItemStatus(quantity) == IF quantity = 0 THEN "out_of_stock" ELSE "available"

\* the form is valid: q units, each of g grams of the material held in
\* inventory row m, which the list of materials shows with stock to cover them
addInventoryItem(t, r, m, q, g) ==
    /\ Free(t)
    /\ Cardinality(CustomItems) < MaxCustom
    /\ q > 0
    /\ m \in Ids(retailer_inventory)
    /\ retailer_inventory[m].retailer_id = r
    /\ retailer_inventory[m].company_product_id \in CompanyProducts
    /\ retailer_inventory[m].quantity > 0
    /\ g * q <= retailer_inventory[m].quantity
    /\ Set(t, [Idle EXCEPT !.op = "addInventoryItem", !.pc = "item", !.scope = r,
                           !.inv = m, !.qty = q, !.amt = g * q,
                           !.read = retailer_inventory[m].quantity])
    /\ UNCHANGED <<now, dueTables, otherTables>>

\* the company_products row and the retailer_inventory row that points to it
addInventoryItem_insert(t) ==
    /\ At(t, "addInventoryItem", "item")
    /\ retailer_inventory' = Append(retailer_inventory,
           [InventoryRow(tasks[t].scope, CustomProduct, tasks[t].qty)
              EXCEPT !.status = getItemStatus(tasks[t].qty)])
    /\ Set(t, [tasks[t] EXCEPT !.pc = "deduct"])
    /\ UNCHANGED <<now, dueTables, transactions, business_transactions,
                   inventory_transactions, retailer_transactions, registered_businesses>>

\* the grams used are taken off the material, as the list showed it
addInventoryItem_deduct(t) ==
    /\ At(t, "addInventoryItem", "deduct")
    /\ LET newQuantity == tasks[t].read - tasks[t].amt
       IN  retailer_inventory' =
             [retailer_inventory EXCEPT ![tasks[t].inv] =
                [@ EXCEPT !.quantity = IF newQuantity < 0 THEN 0 ELSE newQuantity,
                          !.status = getItemStatus(newQuantity)]]
    /\ Set(t, [tasks[t] EXCEPT !.pc = "done", !.outcome = "Success", !.read = 0])
    /\ UNCHANGED <<now, dueTables, transactions, business_transactions,
                   inventory_transactions, retailer_transactions, registered_businesses>>

-----------------------------------------------------------------------------
(* A statement fails (the store is unreachable, the transaction aborts):   *)
(* it changes nothing, and the client function takes its error path.       *)

Throws == {"payConsumerDisposalDue", "payBusinessDisposalDue", "payRetailerDisposalDue"}

\* the error paths of the settlements, the collections and the sweeps
FailureStep(t) ==
    LET k == tasks[t]
    IN  CASE k.op \in Throws /\ k.pc = "update" ->
               [k EXCEPT !.pc = "done", !.outcome = "throw"]
          [] k.op \in {"handlePayDue", "processPayment"} /\ k.pc \in {"update", "record"} ->
               [k EXCEPT !.pc = "done", !.outcome = "Error"]
          [] k.op = "processCollection" /\ k.pc \in {"record", "business"} ->
               [k EXCEPT !.pc = "done", !.outcome = "Error"]
          [] k.op = "processCollection" /\ k.pc = "retailer" ->
               [k EXCEPT !.pc = "business", !.err = TRUE]
          [] k.op = "updateOverdueDues" /\ k.pc \in Tiers ->
               [k EXCEPT !.pc = AfterSweep(k.pc),
                         !.outcome = IF k.pc = "company" THEN "true" ELSE NULL]
          [] k.op \in {"fetchDisposalDues", "handlePayDue"} /\ k.pc = "sweep" ->
               [k EXCEPT !.pc = "done"]
          [] OTHER -> k

PersistenceFailure(t) ==
    /\ FailureStep(t) # tasks[t]
    /\ Set(t, FailureStep(t))
    /\ UNCHANGED <<now, dueTables, otherTables>>

\* the error paths of the purchases: confirmPurchase catches the error of
\* createRetailerCompanyDisposalDue and warns, completePurchaseFlow rethrows
PurchaseFailureStep(t) ==
    LET k == tasks[t]
    IN  CASE k.op = "confirmPurchase" /\ k.pc \in {"rdue", "kdue"} ->
               [k EXCEPT !.pc = "done", !.outcome = "Warning"]
          [] k.op = "completePurchaseFlow" /\
             k.pc \in {"invtxn", "txn", "cdue", "regwrite", "biztxn", "qtywrite"} ->
               [k EXCEPT !.pc = "done", !.outcome = "throw"]
          [] k.op = "createConsumerTransaction" /\ k.pc \in {"txn", "cdue", "regwrite"} ->
               [k EXCEPT !.pc = "done", !.outcome = "throw"]
          [] k.op = "createBusinessTransaction" /\ k.pc = "biztxn" ->
               [k EXCEPT !.pc = "done", !.outcome = "throw"]
          [] k.op = "addInventoryItem" /\ k.pc \in {"item", "deduct"} ->
               [k EXCEPT !.pc = "done", !.outcome = "Error"]
          [] OTHER -> k

PurchaseFailure(t) ==
    /\ PurchaseFailureStep(t) # tasks[t]
    /\ Set(t, PurchaseFailureStep(t))
    /\ UNCHANGED <<now, dueTables, otherTables>>

-----------------------------------------------------------------------------
(* Specifications *)

Quiet == \A u \in Tasks : tasks[u] = Idle
NoPurchase == \A u \in Tasks : tasks[u].op \notin {"confirmPurchase", "completePurchaseFlow"}

\* the purchases of the retailers rs, of products ps, and of the businesses
\* bs, in quantities qs: each starts when no other call is in flight
PurchasesOf(rs, ps, bs, qs) ==
    \/ \E t \in Tasks, r \in rs, p \in ps, q \in StockInQtys :
         Quiet /\ confirmPurchase(t, r, p, q)
    \/ \E t \in Tasks, b \in bs, i \in 1..MaxRows, q \in qs,
          cost \in PlasticCosts : Quiet /\ completePurchaseFlow(t, b, i, q, cost)
    \/ \E t \in Tasks : confirmPurchaseCheck(t)
    \/ \E t \in Tasks : confirmPurchaseStock(t)
    \/ \E t \in Tasks : confirmPurchaseTransaction(t)
    \/ \E t \in Tasks, tz \in TZOffsets : createRetailerCompanyDisposalDue_retailer(t, tz)
    \/ \E t \in Tasks, tz \in TZOffsets : createRetailerCompanyDisposalDue_company(t, tz)
    \/ \E t \in Tasks : createInventoryTransaction(t)
    \/ \E t \in Tasks : createInventoryTransaction_consumer(t)
    \/ \E t \in Tasks : createCompleteDisposalDueFlow(t)
    \/ \E t \in Tasks : ensureBusinessRetailerRelationship(t)
    \/ \E t \in Tasks : ensureBusinessRetailerRelationship_update(t)
    \/ \E t \in Tasks : createBusinessTransaction(t)
    \/ \E t \in Tasks : updateInventoryAfterTransaction(t)
    \/ \E t \in Tasks : updateInventoryAfterTransaction_update(t)

Purchases == PurchasesOf(Stockists, CompanyProducts, Businesses, PurchaseQtys)

\* the settlements of lib/disposal-dues; go is when a call can start
Settlements(go) ==
    \/ \E t \in Tasks, tier \in {"consumer", "business", "retailer"}, d \in 1..MaxRows :
         go /\ CallPay(t, tier, d)
    \/ \E t \in Tasks : payConsumerDisposalDue(t)
    \/ \E t \in Tasks : payBusinessDisposalDue(t)
    \/ \E t \in Tasks : payRetailerDisposalDue(t)

\* the disposal dues screen
DuesScreen(go) ==
    \/ \E t \in Tasks, r \in Stockists : go /\ fetchDisposalDues(t, r)
    \/ \E t \in Tasks, d \in 1..MaxRows : go /\ handlePayDue(t, d)
    \/ \E t \in Tasks : handlePayDueOnPress(t)
    \/ \E t \in Tasks : updateOverdueDuesScreen(t)

\* the collections of the payments screen and of the businesses screen
Collections(go) ==
    \/ \E t \in Tasks, d \in 1..MaxRows : go /\ collectPayment(t, d)
    \/ \E t \in Tasks : processPaymentUpdate(t)
    \/ \E t \in Tasks : processPaymentRecord(t)
    \/ \E t \in Tasks, b \in Businesses, r \in Stockists : go /\ collectFromBusiness(t, b, r)
    \/ \E t \in Tasks : processCollectionRecord(t)
    \/ \E t \in Tasks : processCollectionRetailer(t)
    \/ \E t \in Tasks : processCollectionBusiness(t)

\* the sweep of lib/disposal-dues
Sweeps(go) ==
    \/ \E t \in Tasks : go /\ CallUpdateOverdueDues(t)
    \/ \E t \in Tasks : updateOverdueDues(t)

\* Settlement: purchases open dues and the clients settle and collect them,
\* one call at a time, any statement of a call failing; the clock stands still.
Next ==
    \/ Purchases
    \/ Settlements(Quiet)
    \/ DuesScreen(Quiet)
    \/ Collections(Quiet)
    \/ \E t \in Tasks : PersistenceFailure(t)
    \/ \E t \in Tasks : PurchaseFailure(t)
    \/ \E t \in Tasks : Return(t)

Spec == Init /\ [][Next]_vars

\* Overlap: the settlements of lib/disposal-dues and of the disposal dues
\* screen run side by side.
NextRace ==
    \/ Purchases
    \/ Settlements(NoPurchase)
    \/ DuesScreen(NoPurchase)
    \/ \E t \in Tasks : Return(t)

SpecRace == Init /\ [][NextRace]_vars

SweepOps == {"updateOverdueDues", "fetchDisposalDues"}
NoSweep == NoPurchase /\ \A u \in Tasks : tasks[u].op \notin SweepOps
NoSettle == NoPurchase /\ \A u \in Tasks : tasks[u].op \in SweepOps \cup {"idle"}

\* Ageing: the clock moves, the dues are settled and swept; a sweep and a
\* settlement run side by side.
NextSweep ==
    \/ Purchases
    \/ Settlements(NoSettle)
    \/ \E t \in Tasks, r \in Stockists : NoSweep /\ fetchDisposalDues(t, r)
    \/ \E t \in Tasks : updateOverdueDuesScreen(t)
    \/ Sweeps(NoSweep)
    \/ \E t \in Tasks : Return(t)
    \/ \E j \in TimeJumps : Advance(j)

SpecSweep == Init /\ [][NextSweep]_vars

\* The day a due falls on: the clock moves to the due date of the consumer
\* dues opened on the first day, and the sweeps run on that day.
DueDayJumps == {ConsumerOffset * TicksPerDay}

NextDueDay ==
    \/ Purchases
    \/ Settlements(NoSettle)
    \/ \E t \in Tasks, r \in Stockists : NoSweep /\ fetchDisposalDues(t, r)
    \/ \E t \in Tasks : updateOverdueDuesScreen(t)
    \/ Sweeps(NoSweep)
    \/ \E t \in Tasks : Return(t)
    \/ \E j \in DueDayJumps : Advance(j)

SpecDueDay == Init /\ [][NextDueDay]_vars

\* the purchases as lib/transactions takes them: any quantity its caller
\* passes, more than the stock or negative
StockPurchases == PurchasesOf(Stockists, CompanyProducts, Businesses, OrderQtys)

\* Stock: the retailer stocks in and the businesses buy, one call at a time,
\* any statement of a purchase failing.
NextStock ==
    \/ StockPurchases
    \/ \E t \in Tasks : PurchaseFailure(t)
    \/ \E t \in Tasks : Return(t)

SpecStock == Init /\ [][NextStock]_vars

\* the sales of lib/transactions and the purchases recorded on their own
\* (their later steps are those of Purchases)
Sales(go, us, bs, fees) ==
    \/ \E t \in Tasks, u \in us, i \in 1..MaxRows, fee \in fees :
         go /\ createConsumerTransaction(t, u, i, fee)
    \/ \E t \in Tasks : createConsumerTransaction_insert(t)
    \/ \E t \in Tasks, b \in bs, i \in 1..MaxRows :
         go /\ CallCreateBusinessTransaction(t, b, i)

\* the inventory screen
InventoryOf(go, gs) ==
    \/ \E t \in Tasks, r \in Retailers, m \in 1..MaxRows, q \in PurchaseQtys,
          g \in gs : go /\ addInventoryItem(t, r, m, q, g)
    \/ \E t \in Tasks : addInventoryItem_insert(t)
    \/ \E t \in Tasks : addInventoryItem_deduct(t)

Inventory(go) == InventoryOf(go, GramsPerUnit)

\* the business, its owner and the consumer that buy in the runs of Parties
PartyBusinesses == {"b1"}
PartyUsers == {OwnerOf(b) : b \in PartyBusinesses} \cup Consumers

\* Parties: both retailers stock in, a buyer and a business buy, purchases are
\* recorded on their own, and the dues are settled; one call at a time.
NextParty ==
    \/ PurchasesOf(Retailers, CompanyProducts, PartyBusinesses, PurchaseQtys)
    \/ Sales(Quiet, PartyUsers, PartyBusinesses, Fees)
    \/ Settlements(Quiet)
    \/ \E t \in Tasks : Return(t)

SpecParty == Init /\ [][NextParty]_vars

\* Sales: the retailer stocks in, buyers and businesses buy, with a fee or
\* without, one call at a time, any statement of a purchase failing.
NextSale ==
    \/ Purchases
    \/ Sales(Quiet, Users, Businesses, PlasticCosts)
    \/ \E t \in Tasks : PurchaseFailure(t)
    \/ \E t \in Tasks : Return(t)

SpecSale == Init /\ [][NextSale]_vars

\* Links: the purchases and the settlements, and a caller that opens a
\* retailer due itself under any business due id; one call at a time.
NextLink ==
    \/ Purchases
    \/ Settlements(Quiet)
    \/ \E t \in Tasks, r \in Stockists, parent \in 1..MaxRows, amount \in Fees :
         Quiet /\ CallCreateRetailerDisposalDue(t, r, parent, amount, RetailerOffset)
    \/ \E t \in Tasks : createRetailerDisposalDue(t)
    \/ \E t \in Tasks : Return(t)

SpecLink == Init /\ [][NextLink]_vars

\* Own products: the retailer stocks in company products and makes a product
\* of its own out of them, the businesses buy, and the dues are settled; one
\* call at a time.
NextCustom ==
    \/ Purchases
    \/ Inventory(Quiet)
    \/ Settlements(Quiet)
    \/ \E t \in Tasks : Return(t)

SpecCustom == Init /\ [][NextCustom]_vars

\* Assembly beside a purchase: a retailer makes a product of its own from a
\* material while a business buys that material; the assembly starts whenever
\* no other assembly is in flight.
AssemblyGrams == {1, 2}
NoAssembly == \A u \in Tasks : tasks[u].op # "addInventoryItem"

NextAssembly ==
    \/ Purchases
    \/ InventoryOf(NoAssembly, AssemblyGrams)
    \/ \E t \in Tasks : Return(t)

SpecAssembly == Init /\ [][NextAssembly]_vars

\* Two businesses on one item: the businesses buy, their owners buy as
\* consumers, a purchase of a business is recorded on its own, and the
\* consumer dues are settled; one call at a time.
Owners == {OwnerOf(b) : b \in Businesses}

NextOwner ==
    \/ Purchases
    \/ Sales(Quiet, Owners, Businesses, Fees)
    \/ Settlements(Quiet)
    \/ \E t \in Tasks : Return(t)

SpecOwner == Init /\ [][NextOwner]_vars

\* Purchases side by side: the movements of two purchases are recorded while
\* no other kind of call is in flight.
NoOtherCall == \A u \in Tasks : tasks[u].op \in {"idle", "updateInventoryAfterTransaction"}

NextMove ==
    \/ Purchases
    \/ \E t \in Tasks, i \in 1..MaxRows, q \in PurchaseQtys :
         NoOtherCall /\ CallUpdateInventoryAfterTransaction(t, i, q)
    \/ \E t \in Tasks : Return(t)

SpecMove == Init /\ [][NextMove]_vars

\* Registrations side by side: the flow is called for two businesses on one
\* retailer while no other kind of call is in flight.
NoOtherFlow == \A u \in Tasks : tasks[u].op \in {"idle", "createCompleteDisposalDueFlow"}

NextRegister ==
    \/ Purchases
    \/ \E t \in Tasks, x \in 1..MaxRows, b \in Businesses, r \in Stockists, fee \in Fees :
         NoOtherFlow /\ CallCreateCompleteDisposalDueFlow(t, x, b, r, fee)
    \/ \E t \in Tasks : Return(t)

SpecRegister == Init /\ [][NextRegister]_vars

\* The chain to its end: purchases open dues, and every due, a company due
\* included, is settled by the party that owes it, one call at a time.
CompanySettlements(go) ==
    \/ \E t \in Tasks, k \in 1..MaxRows : go /\ CallSettleCompanyDue(t, k)
    \/ \E t \in Tasks : settleCompanyDue(t)

NextChain ==
    \/ Purchases
    \/ Settlements(Quiet)
    \/ CompanySettlements(Quiet)
    \/ \E t \in Tasks : Return(t)

\* a call that has started runs on: each of its statements is sent and
\* answered, and it returns
Progress ==
    \E t \in Tasks :
      \/ confirmPurchaseCheck(t) \/ confirmPurchaseStock(t) \/ confirmPurchaseTransaction(t)
      \/ \E tz \in TZOffsets : createRetailerCompanyDisposalDue_retailer(t, tz)
      \/ \E tz \in TZOffsets : createRetailerCompanyDisposalDue_company(t, tz)
      \/ createInventoryTransaction(t) \/ createInventoryTransaction_consumer(t)
      \/ createCompleteDisposalDueFlow(t)
      \/ ensureBusinessRetailerRelationship(t) \/ ensureBusinessRetailerRelationship_update(t)
      \/ createBusinessTransaction(t)
      \/ updateInventoryAfterTransaction(t) \/ updateInventoryAfterTransaction_update(t)
      \/ payConsumerDisposalDue(t) \/ payBusinessDisposalDue(t) \/ payRetailerDisposalDue(t)
      \/ settleCompanyDue(t)
      \/ Return(t)

\* a party settles a due of its own that is pending or overdue
SettleUnpaid ==
    \E t \in Tasks, d \in 1..MaxRows :
      /\ Quiet
      /\ \/ \E tier \in {"consumer", "business", "retailer"} :
              /\ d \in Ids(Dues[tier])
              /\ Dues[tier][d].status # "paid"
              /\ CallPay(t, tier, d)
         \/ /\ d \in Ids(company_disposal_dues)
            /\ company_disposal_dues[d].status # "paid"
            /\ CallSettleCompanyDue(t, d)

SpecChain == Init /\ [][NextChain]_vars /\ WF_vars(Progress) /\ SF_vars(SettleUnpaid)

-----------------------------------------------------------------------------
(* Properties *)

Upper == {"consumer", "business", "retailer"}

\* the next-tier dues whose parent is due d of a tier
Children(tier, d) ==
    {i \in Ids(Dues[NextTier(tier)]) :
       ParentOf(NextTier(tier), Dues[NextTier(tier)][i]) = d}

\* those of them a cascade opened (a retailer due of a direct purchase has
\* the company due its purchase opened as well)
Spawned(tier, d) ==
    {i \in Children(tier, d) :
       tier = "retailer" => company_disposal_dues[i].source_type = "retailer_chain"}

\* a call that has sent its UPDATE to paid and has not returned yet
Settled(t) == tasks[t].marked /\ tasks[t].op # "processCollection"

\* C1: for every due at the consumer, business or retailer tier that is paid
\* already, no step, a repeated settle or collection of it included, changes
\* the number of next-tier dues whose parent it is.
C1_NoSecondCascade ==
    [][\A tier \in Upper : \A d \in Ids(Dues[tier]) :
         Dues[tier][d].status = "paid" =>
           Cardinality(Children(tier, d))' = Cardinality(Children(tier, d))]_vars

\* a settle has run on a due that was paid already, and the due has the one
\* child its first settle opened
C1_Witness ==
    \E t \in Tasks :
      /\ Settled(t)
      /\ tasks[t].pc = "done"
      /\ tasks[t].old = "paid"
      /\ Cardinality(Children(tasks[t].tier, tasks[t].due)) = 1

\* C2: when two calls in flight together have both settled the same due and
\* both were made while it was pending, exactly one next-tier due has been
\* opened for it, however their steps interleave.
C2_OneCascadeUnderRace ==
    \A t, u \in Tasks :
      ( /\ t # u
        /\ Settled(t) /\ Settled(u)
        /\ tasks[t].tier = tasks[u].tier /\ tasks[t].due = tasks[u].due
        /\ tasks[t].pre = "pending" /\ tasks[u].pre = "pending" )
      => Cardinality(Spawned(tasks[t].tier, tasks[t].due)) = 1

\* two calls made on the same pending due have both sent their UPDATE, one
\* of them through the disposal dues screen
C2_Witness ==
    \E t, u \in Tasks :
      /\ t # u
      /\ Settled(t) /\ Settled(u)
      /\ tasks[t].tier = tasks[u].tier /\ tasks[t].due = tasks[u].due
      /\ tasks[t].pre = "pending" /\ tasks[u].pre = "pending"
      /\ tasks[t].op = "handlePayDue"
      /\ Cardinality(Spawned(tasks[t].tier, tasks[t].due)) = 1

\* the retailer dues a call has marked paid
MarkedBy(t) ==
    IF tasks[t].op = "processCollection" THEN {p[2] : p \in tasks[t].sel}
    ELSE {tasks[t].due}

\* C3: no call that reported a failure leaves a due it marked paid in status
\* paid (the settlement is atomic with what the flow writes alongside it).
C3_NoPaidAfterFailure ==
    \A t \in Tasks :
      ( /\ tasks[t].pc = "done"
        /\ tasks[t].outcome \in {"Error", "throw"}
        /\ tasks[t].marked )
      => \A d \in MarkedBy(t) : Dues[tasks[t].tier][d].status # "paid"

\* the tier whose dues open those of a tier
PrevTier(tier) ==
    CASE tier = "business" -> "consumer"
      [] tier = "retailer" -> "business"
      [] tier = "company" -> "retailer"

\* C4: every due that has a parent due has exactly the amount of its parent,
\* at every tier.
C4_AmountInherited ==
    \A tier \in {"business", "retailer", "company"} : \A i \in Ids(Dues[tier]) :
      ParentOf(tier, Dues[tier][i]) # NoId =>
        Dues[tier][i].amount = Dues[PrevTier(tier)][ParentOf(tier, Dues[tier][i])].amount

\* a chain has run from a consumer due down to a company due
C4_Witness ==
    \E k \in Ids(company_disposal_dues) :
      /\ company_disposal_dues[k].source_type = "retailer_chain"
      /\ LET r == retailer_disposal_dues[company_disposal_dues[k].retailer_disposal_due_id]
         IN  /\ r.business_disposal_due_id # NoId
             /\ business_disposal_dues[r.business_disposal_due_id].consumer_disposal_due_id # NoId
             /\ company_disposal_dues[k].amount > 0

\* C5: a due that is paid stays paid, at every tier and through every step:
\* a settle, a collection, a sweep, and a sweep running beside a settle.
C5_PaidIsFinal ==
    [][\A tier \in Tiers : \A d \in Ids(Dues[tier]) :
         Dues[tier][d].status = "paid" => Dues[tier][d].status' = "paid"]_vars

\* a sweep has met a paid due that is past its due date, and has left it paid
C5_Witness ==
    \E t \in Tasks :
      /\ tasks[t].op \in SweepOps
      /\ tasks[t].hit
      /\ tasks[t].pc = "done"
      /\ \E tier \in Tiers : \E d \in Ids(Dues[tier]) :
           Dues[tier][d].status = "paid" /\ Dues[tier][d].due_date < tasks[t].asOf

\* C6: a settle of a due that was paid already reports an outcome other than
\* that of a first settlement.
C6_AlreadySettledReported ==
    \A t \in Tasks :
      (Settled(t) /\ tasks[t].pc = "done" /\ tasks[t].old = "paid")
      => tasks[t].outcome \notin {"true", "Success"}

\* the retailer due and the company due of a direct purchase of amount A,
\* opened at instant at
DirectRetailerDue(r, A, at) ==
    [retailer_id |-> r, business_disposal_due_id |-> NoId, amount |-> A,
     due_date |-> ToISODate(at) + DirectRetailerOffset, status |-> "pending",
     source_type |-> "company_purchase", created_at |-> at]

DirectCompanyDue(k, parent, A, at) ==
    [company_id |-> k, retailer_disposal_due_id |-> parent, amount |-> A,
     due_date |-> ToISODate(at) + DirectCompanyOffset, status |-> "pending",
     source_type |-> "direct_purchase", created_at |-> at]

OffsetOf(tier, row) ==
    CASE tier = "consumer" -> ConsumerOffset
      [] tier = "business" -> BusinessOffset
      [] tier = "retailer" ->
           IF row.source_type = "company_purchase" THEN DirectRetailerOffset
           ELSE RetailerOffset
      [] tier = "company" ->
           IF row.source_type = "direct_purchase" THEN DirectCompanyOffset
           ELSE CompanyOffset

StatusOf(db) == [tier \in Tiers |-> [i \in Ids(db[tier]) |-> db[tier][i].status]]

\* the days a sweep can run as of: today, and the day a sweep in flight read
SweepDates == {ToISODate(now)} \cup {tasks[t].asOf : t \in Tasks}

\* C9: from every reachable ledger, the sweep of the library run twice as of
\* the same day leaves every due the status that one run leaves it, and so
\* does the sweep of the disposal dues screen.
C9_SweepIdempotent ==
    \A a \in SweepDates :
      /\ \A once \in SweepAll(Dues, a) : \A twice \in SweepAll(once, a) :
           StatusOf(twice) = StatusOf(once)
      /\ \A r \in Retailers :
           \A once \in SweepTable(Dues, "retailer", a, r) :
             \A twice \in SweepTable(once, "retailer", a, r) :
               StatusOf(twice) = StatusOf(once)

\* a sweep of the library has run as of today and has left two dues of one
\* table overdue, and no due is left for a second run to move
C9_Witness ==
    /\ \E t \in Tasks : /\ tasks[t].op = "updateOverdueDues"
                        /\ tasks[t].pc = "done"
                        /\ tasks[t].asOf = ToISODate(now)
    /\ \E tier \in Tiers :
         Cardinality({d \in Ids(Dues[tier]) : Dues[tier][d].status = "overdue"}) = 2
    /\ \A tier \in Tiers : OverdueRows(Dues[tier], ToISODate(now), NULL) = {}

\* C10: a step that moves a due from pending to overdue adds no row to any of
\* the four due tables and changes nothing of a row but its status.
C10_SweepCreatesNoDue ==
    [][(\E tier \in Tiers : \E d \in Ids(Dues[tier]) :
          Dues[tier][d].status = "pending" /\ Dues[tier][d].status' = "overdue")
       => \A tier \in Tiers :
            /\ Len(Dues[tier])' = Len(Dues[tier])
            /\ \A d \in Ids(Dues[tier]) :
                 [Dues[tier][d] EXCEPT !.status = "x"]' = [Dues[tier][d] EXCEPT !.status = "x"]]_vars

\* a sweep has moved a consumer due, whose business can be resolved, to
\* overdue, and no business due has been opened
C10_Witness ==
    /\ \E t \in Tasks : tasks[t].op = "updateOverdueDues" /\ tasks[t].pc # "consumer"
    /\ \E d \in Ids(consumer_disposal_dues) :
         /\ consumer_disposal_dues[d].status = "overdue"
         /\ \E bt \in Rows(business_transactions) :
              bt.inventory_id = transactions[consumer_disposal_dues[d].transaction_id].inventory_id
    /\ business_disposal_dues = << >>

\* C11: a purchase movement for more units than the item holds ends with
\* the insufficient-inventory error and leaves the quantity of the item as
\* it was.
C11_InsufficientStock ==
    [][\A t \in Tasks :
         ( /\ At(t, "completePurchaseFlow", "qtyread")
           /\ tasks'[t] # tasks[t]
           /\ tasks[t].qty > retailer_inventory[tasks[t].inv].quantity )
         => /\ tasks'[t].pc = "done"
            /\ tasks'[t].outcome = "Insufficient inventory"
            /\ retailer_inventory' = retailer_inventory]_vars

\* a purchase of more units than the item holds has been refused, and the
\* item holds what it was stocked with
C11_Witness ==
    \E t \in Tasks :
      /\ tasks[t].op = "completePurchaseFlow"
      /\ tasks[t].pc = "done"
      /\ tasks[t].outcome = "Insufficient inventory"
      /\ tasks[t].qty > retailer_inventory[tasks[t].inv].quantity
      /\ retailer_inventory[tasks[t].inv].quantity \in StockInQtys

\* C12: after completePurchaseFlow has failed with insufficient inventory, no
\* inventory transaction, business transaction, consumer transaction or
\* disposal due of that call is in the ledger.
C12_NoPartialWrite ==
    \A t \in Tasks :
      ( /\ tasks[t].op = "completePurchaseFlow"
        /\ tasks[t].pc = "done"
        /\ tasks[t].outcome = "Insufficient inventory" )
      => /\ \A x \in Rows(inventory_transactions) :
              ~(x.business_id = tasks[t].biz /\ x.inventory_id = tasks[t].inv
                /\ x.quantity = tasks[t].qty)
         /\ \A x \in Rows(business_transactions) :
              ~(x.business_id = tasks[t].biz /\ x.inventory_id = tasks[t].inv)
         /\ \A x \in Rows(transactions) : x.user_id # OwnerOf(tasks[t].biz)
         /\ \A x \in Rows(consumer_disposal_dues) : x.consumer_id # OwnerOf(tasks[t].biz)

\* C16: a purchase given a negative quantity writes nothing: none of its
\* steps changes a table.
C16_RejectedBeforeWrite ==
    [][\A t \in Tasks :
         (tasks[t].op = "completePurchaseFlow" /\ tasks[t].qty < 0
          /\ tasks'[t] # tasks[t])
         => UNCHANGED <<dueTables, otherTables>>]_vars

-----------------------------------------------------------------------------
(* Who owes the next due *)

\* the retailers whose registered_businesses holds business b
Registered(b) == {r \in Retailers : InSeq(b, registered_businesses[r])}

\* the retailers business b has an inventory_transactions row against
Purchased(b) ==
    {retailer_inventory[it.inventory_id].retailer_id :
       it \in {x \in Rows(inventory_transactions) : x.business_id = b}}

\* the settle task t is about to send is of a business due, not paid yet,
\* whose business no retailer has registered and no retailer has sold to
NoRetailerFor(t) ==
    /\ tasks[t].tier = "business"
    /\ business_disposal_dues[tasks[t].due].status # "paid"
    /\ Registered(business_disposal_dues[tasks[t].due].business_id) = {}
    /\ Purchased(business_disposal_dues[tasks[t].due].business_id) = {}

\* C13: a settle of a business due whose business is in no retailer's
\* registered businesses and has bought from no retailer's inventory moves the
\* due to paid, opens no retailer due, returns true to its caller, and the
\* trigger raises a WARNING; no other settle raises a WARNING (one that opens
\* a due raises a NOTICE, one that ends a chain raises nothing).
C13_UnresolvedRetailer ==
    [][\A t \in Tasks :
         (tasks[t].op \in Throws /\ tasks[t].pc = "update" /\ tasks'[t].pc = "done")
         => /\ NoRetailerFor(t) =>
                 /\ business_disposal_dues'[tasks[t].due].status = "paid"
                 /\ retailer_disposal_dues' = retailer_disposal_dues
                 /\ tasks'[t].outcome = "true"
            /\ tasks'[t].raised = "WARNING" <=> NoRetailerFor(t)]_vars

\* payBusinessDisposalDue has returned true for a due that is paid and has no
\* retailer due, and the WARNING was raised
C13_Witness ==
    \E t \in Tasks :
      /\ At(t, "payBusinessDisposalDue", "done")
      /\ tasks[t].outcome = "true"
      /\ tasks[t].raised = "WARNING"
      /\ tasks[t].old # "paid"
      /\ business_disposal_dues[tasks[t].due].status = "paid"
      /\ Children("business", tasks[t].due) = {}
      /\ Registered(business_disposal_dues[tasks[t].due].business_id) = {}
      /\ Purchased(business_disposal_dues[tasks[t].due].business_id) = {}

\* the businesses create_business_disposal_due can find for consumer due d
BusinessesFor(d) ==
    {bt.business_id : bt \in
       {x \in Rows(business_transactions) :
          x.inventory_id =
            transactions[consumer_disposal_dues[d].transaction_id].inventory_id}}

\* the companies of the company_products rows retailer r has in inventory
CompaniesFor(r) ==
    {ProductCompany(retailer_inventory[i].company_product_id) :
       i \in {x \in Ids(retailer_inventory) :
                /\ retailer_inventory[x].retailer_id = r
                /\ retailer_inventory[x].company_product_id # NULL}} \ {NULL}

\* the party that owes the next due can be found for due d of a tier
Resolvable(tier, d) ==
    CASE tier = "consumer" -> BusinessesFor(d) # {}
      [] tier = "business" ->
           \/ Registered(business_disposal_dues[d].business_id) # {}
           \/ Purchased(business_disposal_dues[d].business_id) # {}
      [] tier = "retailer" -> CompaniesFor(retailer_disposal_dues[d].retailer_id) # {}

C18_RegisteredFirst ==
    [][\A d \in Ids(business_disposal_dues) :
         ( /\ business_disposal_dues[d].status # "paid"
           /\ business_disposal_dues'[d].status = "paid" )
         => \A i \in Children("business", d)' \ Children("business", d) :
              LET b == business_disposal_dues[d].business_id
              IN  IF Registered(b) # {}
                  THEN retailer_disposal_dues'[i].retailer_id \in Registered(b)
                  ELSE retailer_disposal_dues'[i].retailer_id \in Purchased(b)]_vars

\* a business registered with one retailer, and with purchases from another
\* retailer only, has settled a due, and the retailer due is the former's
C18_Witness ==
    \E t \in Tasks :
      /\ At(t, "payBusinessDisposalDue", "done")
      /\ tasks[t].cascade = "created"
      /\ LET b == business_disposal_dues[tasks[t].due].business_id
         IN  /\ Registered(b) # {}
             /\ Purchased(b) # {}
             /\ Registered(b) \cap Purchased(b) = {}
             /\ \E i \in Children("business", tasks[t].due) :
                  retailer_disposal_dues[i].retailer_id \in Registered(b)

\* C19: when a step settles a retailer due and the inventory of its retailer
\* holds a product of some company, the step opens a company due under the
\* settled due, owned by a company that has a product in that inventory.
C19_CompanyFromInventory ==
    [][\A d \in Ids(retailer_disposal_dues) :
         ( /\ retailer_disposal_dues[d].status # "paid"
           /\ retailer_disposal_dues'[d].status = "paid"
           /\ CompaniesFor(retailer_disposal_dues[d].retailer_id) # {} )
         => \E i \in Children("retailer", d)' \ Children("retailer", d) :
              company_disposal_dues'[i].company_id
                \in CompaniesFor(retailer_disposal_dues[d].retailer_id)]_vars

-----------------------------------------------------------------------------
(* Origination *)

\* C15: a step that inserts a transactions row with plastic_disposal_fee > 0
\* adds one consumer due, pending, of the amount of the fee, owned by the
\* user of the transaction and pointing to it, and changes no other due; an
\* insert with fee 0 changes no due table; and createConsumerTransaction with
\* fee 0 changes no due table from its call to its return.
C15_FeeOriginatesDue ==
    [][/\ Len(transactions') > Len(transactions) =>
            LET id == Len(transactions) + 1
                row == transactions'[id]
                n == Len(consumer_disposal_dues)
            IN  IF row.plastic_disposal_fee > 0
                THEN /\ Len(consumer_disposal_dues') = n + 1
                     /\ SubSeq(consumer_disposal_dues', 1, n) = consumer_disposal_dues
                     /\ consumer_disposal_dues'[n + 1].status = "pending"
                     /\ consumer_disposal_dues'[n + 1].amount = row.plastic_disposal_fee
                     /\ consumer_disposal_dues'[n + 1].consumer_id = row.user_id
                     /\ consumer_disposal_dues'[n + 1].transaction_id = id
                     /\ UNCHANGED <<business_disposal_dues, retailer_disposal_dues,
                                    company_disposal_dues>>
                ELSE UNCHANGED dueTables
       /\ \A t \in Tasks :
            (tasks[t].op = "createConsumerTransaction" /\ tasks[t].amt = 0)
            => UNCHANGED dueTables]_vars

\* a consumer has paid a fee through createConsumerTransaction and a due of
\* the transaction, pending and of the amount of the fee, is theirs
C15_Witness ==
    \E t \in Tasks :
      /\ At(t, "createConsumerTransaction", "done")
      /\ tasks[t].outcome = "ok"
      /\ tasks[t].amt > 0
      /\ tasks[t].user \in Consumers
      /\ \E c \in Ids(consumer_disposal_dues) :
           /\ consumer_disposal_dues[c].transaction_id = tasks[t].snap
           /\ consumer_disposal_dues[c].consumer_id = tasks[t].user
           /\ consumer_disposal_dues[c].amount = tasks[t].amt
           /\ consumer_disposal_dues[c].status = "pending"

-----------------------------------------------------------------------------
(* Links *)

\* C17: in every state, a business, retailer or company due whose parent
\* column is not null has exactly one row of the table one tier below with
\* that id, and a due whose parent column is null is a retailer due of
\* source_type company_purchase (consumer dues, the roots, have no parent
\* column).
C17_ParentLinks ==
    \A tier \in {"business", "retailer", "company"} : \A i \in Ids(Dues[tier]) :
      LET parent == ParentOf(tier, Dues[tier][i])
      IN  IF parent # NoId
          THEN Cardinality({j \in Ids(Dues[PrevTier(tier)]) : j = parent}) = 1
          ELSE /\ tier = "retailer"
               /\ Dues[tier][i].source_type = "company_purchase"

\* a business due has two retailer dues under it, one its settlement opened
\* and one a caller opened, and a company due stands under one of them
C17_Witness ==
    \E b \in Ids(business_disposal_dues) :
      /\ Cardinality(Children("business", b)) = 2
      /\ \E r \in Children("business", b) : Children("retailer", r) # {}

-----------------------------------------------------------------------------
(* Late payment *)

\* the ledger with due d of a tier pending
AsPending(tier, d) == [Dues EXCEPT ![tier] = SetStatus(Dues[tier], {d}, "pending")]

\* C20: for every overdue due at the consumer, business or retailer tier, the
\* UPDATE to paid does to the ledger what it would do were the due pending,
\* and a step that settles the due leaves one of those ledgers: the due
\* paid, and the next-tier due opened as for a payment on time.
C20_LatePaymentCascades ==
    [][\A tier \in Upper : \A d \in Ids(Dues[tier]) :
         Dues[tier][d].status = "overdue"
         => /\ UpdateStatus(Dues, tier, {d}, "paid")
                 = UpdateStatus(AsPending(tier, d), tier, {d}, "paid")
            /\ Dues'[tier][d].status = "paid"
                 => Dues' \in UpdateStatus(AsPending(tier, d), tier, {d}, "paid")]_vars

\* a business due that was overdue has been settled, and the retailer due it
\* opened is pending
C20_Witness ==
    \E t \in Tasks :
      /\ At(t, "payBusinessDisposalDue", "done")
      /\ tasks[t].old = "overdue"
      /\ tasks[t].cascade = "created"
      /\ business_disposal_dues[tasks[t].due].status = "paid"
      /\ \E i \in Children("business", tasks[t].due) :
           /\ retailer_disposal_dues[i].status = "pending"
           /\ retailer_disposal_dues[i].amount = business_disposal_dues[tasks[t].due].amount

-----------------------------------------------------------------------------
(* The rows a sweep moves                                                  *)

\* the statement a sweep is about to run: its table, and the retailer it
\* is narrowed to (NULL for the sweep of the library)
SweepTier(t) == IF tasks[t].op = "updateOverdueDues" THEN tasks[t].pc ELSE "retailer"
SweepScope(t) == IF tasks[t].op = "updateOverdueDues" THEN NULL ELSE tasks[t].scope
Sweeping(t) ==
    \/ tasks[t].op = "updateOverdueDues" /\ tasks[t].pc \in Tiers
    \/ tasks[t].op \in {"fetchDisposalDues", "handlePayDue"} /\ tasks[t].pc = "sweep"

\* C21: a statement of a sweep as of a day changes, of all the dues, exactly
\* the rows of its table and scope that were pending with a due date strictly
\* before that day, and leaves each of them overdue; a pending due of that
\* day or a later one, a paid due and an overdue due stay as they were, and
\* no due is added.
C21_SweepMovesExactlyPastDue ==
    [][\A t \in Tasks :
         (Sweeping(t) /\ tasks[t].pc' # tasks[t].pc)
         => \A tier \in Tiers :
              /\ Len(Dues[tier])' = Len(Dues[tier])
              /\ \A d \in Ids(Dues[tier]) :
                   Dues[tier][d]' =
                     IF /\ tier = SweepTier(t)
                        /\ Dues[tier][d].status = "pending"
                        /\ Dues[tier][d].due_date < tasks[t].asOf'
                        /\ (SweepScope(t) # NULL => Dues[tier][d].retailer_id = SweepScope(t))
                     THEN [Dues[tier][d] EXCEPT !.status = "overdue"]
                     ELSE Dues[tier][d]]_vars

\* a sweep has run as of a day and the tables hold a due it has moved to
\* overdue, a due still pending that falls on that very day, and a paid due
\* past its date
C21_Witness ==
    \E t \in Tasks :
      /\ tasks[t].op \in SweepOps
      /\ tasks[t].pc = "done"
      /\ \E tier \in Tiers : \E d \in Ids(Dues[tier]) :
           Dues[tier][d].status = "overdue" /\ Dues[tier][d].due_date < tasks[t].asOf
      /\ \E tier \in Tiers : \E d \in Ids(Dues[tier]) :
           Dues[tier][d].status = "pending" /\ Dues[tier][d].due_date = tasks[t].asOf
      /\ \E tier \in Tiers : \E d \in Ids(Dues[tier]) :
           Dues[tier][d].status = "paid" /\ Dues[tier][d].due_date < tasks[t].asOf

-----------------------------------------------------------------------------
(* Stock status                                                            *)

\* C22: a step that changes the quantity of an inventory item, or adds the
\* item, leaves its status recomputed from the new quantity: out_of_stock
\* exactly when the quantity is 0, available otherwise.
C22_StatusFollowsQuantity ==
    [][\A i \in Ids(retailer_inventory') :
         (i \in Ids(retailer_inventory) => retailer_inventory[i].quantity' # retailer_inventory[i].quantity)
         => retailer_inventory[i].status' = getItemStatus(retailer_inventory[i].quantity')]_vars

-----------------------------------------------------------------------------
(* The chain reaches its end                                               *)

\* the company dues at the end of the chain of consumer due c
ChainEnd(c) ==
    {k \in Ids(company_disposal_dues) :
       \E b \in Children("consumer", c) : \E r \in Children("business", b) :
         k \in Children("retailer", r)}

\* all the dues of the chain of consumer due c, tier by tier
Chain(c) ==
    [consumer |-> {c},
     business |-> Children("consumer", c),
     retailer |-> UNION {Children("business", b) : b \in Children("consumer", c)},
     company  |-> ChainEnd(c)]

\* at every tier of the chain of c the party that owes the next due can be
\* found: a business has bought the item, a retailer has registered or sold
\* to each such business, and each such retailer stocks a company's product
ChainResolvable(c) ==
    /\ BusinessesFor(c) # {}
    /\ \A b \in BusinessesFor(c) :
         /\ Registered(b) \cup Purchased(b) # {}
         /\ \A r \in Registered(b) \cup Purchased(b) : CompaniesFor(r) # {}

\* C23: when every call runs on and every pending or overdue due is settled
\* in the end, a root consumer due whose next party can be found at every
\* tier leads to a paid company due at the end of its chain; and once that
\* company due is paid no step adds a due to the chain.
C23_ChainReachesCompany ==
    /\ \A c \in 1..MaxRows :
         (c \in Ids(consumer_disposal_dues) /\ ChainResolvable(c))
         ~> (\E k \in ChainEnd(c) : company_disposal_dues[k].status = "paid")
    /\ [][\A c \in Ids(consumer_disposal_dues) :
            (\E k \in ChainEnd(c) : company_disposal_dues[k].status = "paid")
            => Chain(c)' = Chain(c)]_vars

\* a chain has been settled to its end: the consumer due, one business due,
\* one retailer due and one company due, all paid
C23_Witness ==
    \E c \in Ids(consumer_disposal_dues) :
      /\ ChainResolvable(c)
      /\ consumer_disposal_dues[c].status = "paid"
      /\ \A tier \in Tiers : Cardinality(Chain(c)[tier]) = 1
      /\ \A b \in Chain(c).business : business_disposal_dues[b].status = "paid"
      /\ \A r \in Chain(c).retailer : retailer_disposal_dues[r].status = "paid"
      /\ \A k \in Chain(c).company : company_disposal_dues[k].status = "paid"

-----------------------------------------------------------------------------
(* Quantities                                                              *)

\* task t is about to write the quantity of its item after taking n units
Taking(t, n) ==
    \/ At(t, "addInventoryItem", "deduct") /\ n = tasks[t].amt
    \/ At(t, "completePurchaseFlow", "qtywrite") /\ n = tasks[t].qty

\* C24: the quantity of every inventory item is 0 or more in every state, and
\* an operation that takes more units than its item holds at that moment
\* fails and leaves the quantity as it is, rather than storing 0.
C24_NoSilentClamp ==
    /\ [](\A i \in Ids(retailer_inventory) : retailer_inventory[i].quantity >= 0)
    /\ [][\A t \in Tasks : \A n \in 1..(MaxRows + 2) :
            ( /\ Taking(t, n)
              /\ tasks'[t].pc # tasks[t].pc
              /\ n > retailer_inventory[tasks[t].inv].quantity )
            => /\ retailer_inventory' = retailer_inventory
               /\ tasks'[t].outcome \notin {"ok", "Success"}]_vars

-----------------------------------------------------------------------------
(* One due below a due                                                     *)

\* C25: in every state a retailer due has at most one company due that
\* points to it, a retailer due of a direct company purchase, which has its
\* direct_purchase company due, included, also after it is settled.
C25_OneCompanyDuePerRetailerDue ==
    \A r \in Ids(retailer_disposal_dues) : Cardinality(Children("retailer", r)) <= 1

\* the consumer dues that refer to transaction x
DuesOf(x) == {d \in Ids(consumer_disposal_dues) : consumer_disposal_dues[d].transaction_id = x}

\* C26: in every state a transaction has at most one consumer due that
\* refers to it: a purchase recorded with a positive disposal fee, by a
\* consumer or by a business, opens one root consumer due for its transaction.
C26_OneConsumerDuePerTransaction ==
    \A x \in Ids(transactions) : Cardinality(DuesOf(x)) <= 1

-----------------------------------------------------------------------------
(* Whose business due                                                      *)

\* the user who bought in the transaction behind consumer due d
BuyerOf(d) == transactions[consumer_disposal_dues[d].transaction_id].user_id

\* C27: a step that settles a consumer due whose buyer bought for a business
\* leaves every business due it opens owned by that business, and not by
\* another business that has a business transaction on the same item.
C27_BusinessDueOfTheBuyer ==
    [][\A d \in Ids(consumer_disposal_dues) :
         ( /\ consumer_disposal_dues[d].status # "paid"
           /\ consumer_disposal_dues'[d].status = "paid"
           /\ UserType(BuyerOf(d)) = "business" )
         => \A i \in Spawned("consumer", d)' :
              business_disposal_dues'[i].business_id = BusinessOf(BuyerOf(d))]_vars

-----------------------------------------------------------------------------
(* Purchases side by side                                                  *)

\* the call of task t has recorded its purchase
Moved(t) ==
    /\ At(t, "updateInventoryAfterTransaction", "done")
    /\ tasks[t].outcome = "ok"

\* C28: when a purchase of q1 units and a purchase of q2 units of one item
\* have run side by side, the second started while the first was in flight
\* and the item holding q1 + q2 units or more, and both have returned, the
\* item holds what it held less q1 and less q2, whatever the order of their
\* reads and writes.
C28_NoLostStockUpdate ==
    \A t, u \in Tasks :
      ( /\ t # u
        /\ Moved(t) /\ Moved(u)
        /\ tasks[t].inv = tasks[u].inv
        /\ tasks[t].hit /\ ~tasks[u].hit
        /\ tasks[t].snap = tasks[u].snap
        /\ tasks[u].snap >= tasks[t].qty + tasks[u].qty )
      => retailer_inventory[tasks[t].inv].quantity =
           tasks[u].snap - tasks[t].qty - tasks[u].qty

-----------------------------------------------------------------------------
(* The pair of a direct purchase                                           *)

\* createRetailerCompanyDisposalDue is between its two inserts for
\* retailer due r
PairInFlight(r) == \E t \in Tasks : At(t, "confirmPurchase", "kdue") /\ tasks[t].due = r

\* C29: once createRetailerCompanyDisposalDue has returned or failed, the
\* retailer due and the company due of a direct purchase exist both or
\* neither: every company_purchase retailer due whose call is no longer in
\* flight has a direct_purchase company due that points to it, and so has
\* every stock-in of a positive disposal cost that has ended without an error.
C29_DirectPairAllOrNothing ==
    \A r \in Ids(retailer_disposal_dues) :
      ( /\ retailer_disposal_dues[r].source_type = "company_purchase"
        /\ ~PairInFlight(r) )
      => \E k \in Children("retailer", r) :
           company_disposal_dues[k].source_type = "direct_purchase"

-----------------------------------------------------------------------------
(* Registrations side by side                                              *)

\* how often business b stands in the registered businesses of retailer r
Times(b, r) ==
    Cardinality({i \in 1..Len(registered_businesses[r]) : registered_businesses[r][i] = b})

\* C30: registering businesses with a retailer loses no registration and
\* adds no duplicate: whenever a flow has returned for a business and a
\* retailer, whatever other flow ran beside it, the business stands in the
\* registered businesses of the retailer, and no business stands there twice.
C30_NoLostRegistration ==
    /\ \A t \in Tasks :
         (At(t, "createCompleteDisposalDueFlow", "done") /\ tasks[t].outcome = "ok")
         => Times(tasks[t].biz, tasks[t].scope) = 1
    /\ \A b \in Businesses, r \in Retailers : Times(b, r) <= 1

====
